---- MODULE Spec2Model ----
(***************************************************************************)
(* Privacy-preserving aggregation engine of open_workinghours              *)
(* (backend/app/aggregation.py) together with the raw-record operations    *)
(* that feed it (routers/auth.py, routers/work_events.py) and the          *)
(* stats_by_state_specialty table it publishes into (models.py).           *)
(*                                                                         *)
(* Dates are proleptic Gregorian ordinals (date.toordinal()).  Hours are   *)
(* stored in hundredths (Numeric(5,2)).  Non-integral quantities are exact *)
(* fractions <<num, den>> with den > 0.                                     *)
(***************************************************************************)
EXTENDS Integers, Sequences, FiniteSets, TLC

VARIABLES users, work_events, stats, clock, changes, lastRun, sessions, wk, call

vars == <<users, work_events, stats, clock, changes, lastRun, sessions, wk, call>>

(***************************************************************************)
(* Calendar: datetime.date as used by aggregation.py                       *)
(***************************************************************************)
MINYEAR == 1

MAXYEAR == 9999

IsLeap(y) == (y % 4 = 0) /\ ((y % 100 # 0) \/ (y % 400 = 0))

DaysInYear(y) == IF IsLeap(y) THEN 366 ELSE 365

DaysBeforeYear(y) ==
    LET p == y - 1 IN p * 365 + (p \div 4) - (p \div 100) + (p \div 400)

DaysInMonth(y, m) ==
    IF m = 2 THEN (IF IsLeap(y) THEN 29 ELSE 28)
    ELSE IF m \in {4, 6, 9, 11} THEN 30 ELSE 31

RECURSIVE DaysBeforeMonth(_, _)
DaysBeforeMonth(y, m) ==
    IF m = 1 THEN 0 ELSE DaysBeforeMonth(y, m - 1) + DaysInMonth(y, m - 1)

\* date(y, m, d).toordinal()
Date(y, m, d) == DaysBeforeYear(y) + DaysBeforeMonth(y, m) + d

MinOrdinal == Date(MINYEAR, 1, 1)

MaxOrdinal == Date(MAXYEAR, 12, 31)

\* date.weekday(): Monday = 0 .. Sunday = 6
Weekday(o) == (o + 6) % 7

\* the calendar year an ordinal falls in
YearOf(o) ==
    LET lo == ((o - 1) \div 366) + 1
        hi == IF lo + 30 > MAXYEAR THEN MAXYEAR ELSE lo + 30
    IN  CHOOSE y \in lo..hi :
            DaysBeforeYear(y) < o /\ o <= DaysBeforeYear(y) + DaysInYear(y)

\* Monday of ISO week 1 of a year: the week holding the year's first Thursday
IsoWeek1Monday(y) ==
    LET firstday == Date(y, 1, 1)
        firstweekday == Weekday(firstday)
        monday == firstday - firstweekday
    IN  IF firstweekday > 3 THEN monday + 7 ELSE monday

\* week and weekday of an ordinal counted from a week-1 Monday
WeekAndDay(year, o, week1monday) ==
    <<year, ((o - week1monday) \div 7) + 1, ((o - week1monday) % 7) + 1>>

\* isocalendar() of the ordinal o of calendar year y, whose week 1 starts on w1
IsoCalendarOf(o, y, w1) ==
    IF o < w1
    THEN WeekAndDay(y - 1, o, IsoWeek1Monday(y - 1))
    ELSE IF (o - w1) \div 7 >= 52 /\ o >= IsoWeek1Monday(y + 1)
         THEN <<y + 1, 1, ((o - w1) % 7) + 1>>
         ELSE WeekAndDay(y, o, w1)

IsoCalendarIn(o, y) == IsoCalendarOf(o, y, IsoWeek1Monday(y))

\* date.isocalendar() -> <<ISO year, ISO week, ISO weekday>>
IsoCalendar(o) == IsoCalendarIn(o, YearOf(o))

\* date +/- timedelta raises OverflowError outside date.min .. date.max
InRange(o) == o >= MinOrdinal /\ o <= MaxOrdinal

\* get_iso_week_bounds(iso_year, iso_week): the Monday and the Sunday of the
\* week, or an error when a date it builds is out of range
\* lines 35-38: the week's Monday and Sunday from the Monday of week 1
WeekFrom(week_1_monday, iso_week) ==
    IF /\ InRange(week_1_monday)
       /\ InRange(week_1_monday + 7 * (iso_week - 1))
       /\ InRange(week_1_monday + 7 * (iso_week - 1) + 6)
    THEN [ok |-> TRUE,
          period_start |-> week_1_monday + 7 * (iso_week - 1),
          period_end |-> week_1_monday + 7 * (iso_week - 1) + 6]
    ELSE [ok |-> FALSE, period_start |-> 0, period_end |-> 0]

\* lines 31-33: January 4th is always in week 1; the Monday of its week
Week1Monday(jan_4) == jan_4 - Weekday(jan_4)

get_iso_week_bounds(iso_year, iso_week) ==
    WeekFrom(Week1Monday(Date(iso_year, 1, 4)), iso_week)

IsoWeekBounds(iso) == get_iso_week_bounds(iso[1], iso[2])

\* lines 87-89 of compute_aggregates_by_state_specialty
ResolvePeriod(target_date) == IsoWeekBounds(IsoCalendar(target_date))

(***************************************************************************)
(* Exact fractions standing for Python floats and SQL numerics             *)
(***************************************************************************)
Abs(i) == IF i < 0 THEN -i ELSE i

RECURSIVE Gcd(_, _)
Gcd(a, b) == IF b = 0 THEN a ELSE Gcd(b, a % b)

Reduce(n, d, g) == IF d < 0 THEN <<-(n \div g), -(d \div g)>> ELSE <<n \div g, d \div g>>

Frac(n, d) == IF n = 0 THEN <<0, 1>> ELSE Reduce(n, d, Gcd(Abs(n), Abs(d)))

FAdd(a, b) == Frac(a[1] * b[2] + b[1] * a[2], a[2] * b[2])

FSub(a, b) == Frac(a[1] * b[2] - b[1] * a[2], a[2] * b[2])

FMul(a, b) == Frac(a[1] * b[1], a[2] * b[2])

FDiv(a, b) == Frac(a[1] * b[2], a[2] * b[1])

FNeg(a) == <<-a[1], a[2]>>

FAbs(x) == <<Abs(x[1]), x[2]>>

FLess(a, b) == a[1] * b[2] < b[1] * a[2]

FLeq(a, b) == a[1] * b[2] <= b[1] * a[2]

\* Decimal(str(round(x, 2))): x to the nearest hundredth, ties to even,
\* as an integer number of hundredths
RoundHalfEven(q, r, d) ==
    IF 2 * r < d THEN q
    ELSE IF 2 * r > d THEN q + 1
    ELSE IF q % 2 = 0 THEN q ELSE q + 1

Round2(x) == RoundHalfEven((x[1] * 100) \div x[2], (x[1] * 100) % x[2], x[2])

RECURSIVE SumOver(_, _)
\* sum of field f over a set of records
SumOver(S, f) ==
    IF S = {} THEN 0
    ELSE LET x == CHOOSE y \in S : TRUE IN x[f] + SumOver(S \ {x}, f)

(***************************************************************************)
(* Privacy parameters (aggregation.py lines 19-21)                         *)
(***************************************************************************)
K_MIN == 11

\* EPSILON = 1.0
EPSILON == <<1, 1>>

\* max_hours_per_week = 24 * 7
max_hours_per_week == 24 * 7

(***************************************************************************)
(* Bounds of the model                                                     *)
(***************************************************************************)
\* accounts that issue requests while the model runs
NActors == 3

\* raw-data changes (register, erase, create/update/delete event) explored
MaxChanges == 3

\* aggregation runs explored
MaxRuns == 2

(***************************************************************************)
(* Raw records: users and work_events (models.py)                          *)
(***************************************************************************)
\* cohort key: the four grouping columns of the aggregation query
CohortKey(r) ==
    [country_code |-> r.country_code, state_code |-> r.state_code,
     specialty |-> r.specialty, role_level |-> r.role_level]

CohortBY ==
    [country_code |-> "DEU", state_code |-> "BY",
     specialty |-> "surgery", role_level |-> "specialist"]

CohortHH ==
    [country_code |-> "DEU", state_code |-> "HH",
     specialty |-> "pediatrics", role_level |-> "resident"]

Cohorts == {CohortBY, CohortHH}

\* state_code is optional at registration and nullable in users
None == "None"

\* the cohort of the accounts registered without a state
CohortNone ==
    [country_code |-> "DEU", state_code |-> None,
     specialty |-> "surgery", role_level |-> "resident"]

AllCohorts == Cohorts \cup {CohortNone}

\* order in which the query returns its groups
CohortOrder == <<CohortBY, CohortHH, CohortNone>>

\* accounts that stay as they are: the first cohort is one short of the
\* threshold, the second one above it
NIdle == <<K_MIN - 1, K_MIN + 1>>

IdleIds(i) == IF i = 1 THEN 1..NIdle[1] ELSE (NIdle[1] + 1)..(NIdle[1] + NIdle[2])

Actors == (NIdle[1] + NIdle[2] + 1)..(NIdle[1] + NIdle[2] + NActors)

\* the dates of the test fixture's first and last records (a Tuesday of ISO
\* week 2025-W49 and the Monday of 2025-W50)
EventDates == {Date(2025, 12, 2), Date(2025, 12, 8)}

\* the idle accounts have a second record inside 2025-W49
IdleDates == EventDates \cup {Date(2025, 12, 4)}

\* reference dates handed to the run
TargetDates == {Date(2025, 12, 5), Date(2025, 12, 8)}

\* hours are held in hundredths: planned 8.0 / actual 9.0 as in the fixture
\* and the ends of the range WorkEventIn allows
HoursIn == {<<800, 900>>, <<2400, 0>>}

UserRow(id, c) ==
    [user_id |-> id, country_code |-> c.country_code, state_code |-> c.state_code,
     specialty |-> c.specialty, role_level |-> c.role_level]

EventRow(id, d, h) ==
    [user_id |-> id, date |-> d, planned_hours |-> h[1], actual_hours |-> h[2]]

IdleUsers ==
    {UserRow(id, CohortOrder[i]) : <<i, id>> \in
        {p \in (1..2) \X (1..(NIdle[1] + NIdle[2])) : p[2] \in IdleIds(p[1])}}

IdleEvents ==
    {EventRow(u.user_id, d, <<800, 900>>) : <<u, d>> \in IdleUsers \X IdleDates}

(***************************************************************************)
(* The aggregation run (aggregation.py)                                    *)
(***************************************************************************)
\* resolution of the uniform draws: a draw is u = k / UDen, -1/2 <= u <= 1/2
UDen == 4

\* variant: one sensitivity for all cohorts, that of the smallest publishable one
Sensitivity_Global(n_users) == Frac(max_hours_per_week, K_MIN)

Sensitivity(n_users) == Frac(max_hours_per_week, n_users)

\* variant: the right side without its sign
InverseCdf_NoSign(scale, u) ==
    IF FLess(u, <<0, 1>>)
    THEN FMul(scale, FAdd(<<1, 1>>, FMul(u, <<2, 1>>)))
    ELSE FMul(scale, FSub(<<1, 1>>, FMul(u, <<2, 1>>)))

\* variant: the right side adds 2u where the code subtracts it
InverseCdf_RightSidePlus(scale, u) ==
    IF FLess(u, <<0, 1>>)
    THEN FMul(scale, FAdd(<<1, 1>>, FMul(u, <<2, 1>>)))
    ELSE FMul(FNeg(scale), FAdd(<<1, 1>>, FMul(u, <<2, 1>>)))

\* laplace_noise(epsilon, sensitivity) for the draw u
\* lines 58-62: the inverse CDF applied to the draw u
InverseCdf(scale, u) ==
    IF FLess(u, <<0, 1>>)
    THEN FMul(scale, FAdd(<<1, 1>>, FMul(u, <<2, 1>>)))
    ELSE FMul(FNeg(scale), FSub(<<1, 1>>, FMul(u, <<2, 1>>)))

\* variant: the scale is sensitivity * epsilon
laplace_noise_ScaleTimesEps(epsilon, sensitivity, u) ==
    InverseCdf(FMul(sensitivity, epsilon), u)

laplace_noise(epsilon, sensitivity, u) == InverseCdf(FDiv(sensitivity, epsilon), u)

\* the records of one cohort inside the window (join, where, group by)
CohortEvents(us, evs, c, period_start, period_end) ==
    LET members == {u.user_id : u \in {x \in us : CohortKey(x) = c}}
    IN  {e \in evs : /\ e.date >= period_start
                     /\ e.date <= period_end
                     /\ e.user_id \in members}

\* variant: count(user_id) without distinct
DistinctUsers_CountsEvents(G) == Cardinality(G)

\* func.count(func.distinct(WorkEvent.user_id))
DistinctUsers(G) == Cardinality({e.user_id : e \in G})

\* func.avg(column), in hours
Avg(G, f) == Frac(SumOver(G, f), 100 * Cardinality(G))

\* the selected columns of one group G
GroupRow(c, G) ==
    [key |-> c, n_users |-> DistinctUsers(G),
     avg_planned |-> Avg(G, "planned_hours"),
     avg_actual |-> Avg(G, "actual_hours")]

\* one result row of the grouped query
ResultRow(us, evs, c, period_start, period_end) ==
    GroupRow(c, CohortEvents(us, evs, c, period_start, period_end))

\* db.execute(query).all(): one row per cohort that has a record in the window
QueryResults(us, evs, period_start, period_end) ==
    SelectSeq([i \in 1..Len(CohortOrder) |->
                  ResultRow(us, evs, CohortOrder[i], period_start, period_end)],
              LAMBDA r : r.n_users > 0)

\* variant: the filter lets a cohort one short of the threshold through
Accepted_OffByOne(n_users) == ~(n_users < K_MIN - 1)

\* variant: the filter suppresses a cohort exactly at the threshold
Accepted_Strict(n_users) == ~(n_users <= K_MIN)

\* the k-anonymity filter: the row is published iff not (n_users < K_MIN)
Accepted(n_users) == ~(n_users < K_MIN)

FMax0(x) == IF FLess(x, <<0, 1>>) THEN <<0, 1>> ELSE x

\* variant: one draw serves all three fields
Noised_OneDraw(avg_planned, avg_actual, sensitivity, draws) ==
    [planned |-> Round2(FMax0(FAdd(avg_planned,
                    laplace_noise(EPSILON, sensitivity, Frac(draws[1], UDen))))),
     actual |-> Round2(FMax0(FAdd(avg_actual,
                    laplace_noise(EPSILON, sensitivity, Frac(draws[1], UDen))))),
     overtime |-> Round2(FAdd(FSub(avg_actual, avg_planned),
                    laplace_noise(EPSILON, sensitivity, Frac(draws[1], UDen))))]

\* variant: the overtime mean is clamped like the other two
Noised_ClampsOvertime(avg_planned, avg_actual, sensitivity, draws) ==
    [planned |-> Round2(FMax0(FAdd(avg_planned,
                    laplace_noise(EPSILON, sensitivity, Frac(draws[1], UDen))))),
     actual |-> Round2(FMax0(FAdd(avg_actual,
                    laplace_noise(EPSILON, sensitivity, Frac(draws[2], UDen))))),
     overtime |-> Round2(FMax0(FAdd(FSub(avg_actual, avg_planned),
                    laplace_noise(EPSILON, sensitivity, Frac(draws[3], UDen)))))]

\* the noised values of an accepted row; draws = <<u_planned, u_actual, u_overtime>>
\* lines 131-150 for the sensitivity computed at line 141
Noised(avg_planned, avg_actual, sensitivity, draws) ==
    [planned |-> Round2(FMax0(FAdd(avg_planned,
                    laplace_noise(EPSILON, sensitivity, Frac(draws[1], UDen))))),
     actual |-> Round2(FMax0(FAdd(avg_actual,
                    laplace_noise(EPSILON, sensitivity, Frac(draws[2], UDen))))),
     overtime |-> Round2(FAdd(FSub(avg_actual, avg_planned),
                    laplace_noise(EPSILON, sensitivity, Frac(draws[3], UDen))))]

NoisedValues(row, draws) ==
    Noised(row.avg_planned, row.avg_actual, Sensitivity(row.n_users), draws)

\* variant: the lookup compares the wrong period column and never matches
Existing_WrongPeriod(st, key, period_start) ==
    {r \in st : CohortKey(r) = key /\ r.period_end = period_start}

\* variant: the lookup leaves out the period
Existing_NoPeriod(st, key, period_start) ==
    {r \in st : CohortKey(r) = key}

\* the lookup by natural key; autoflush is off, so it sees the table only
Existing(st, key, period_start) ==
    {r \in st : CohortKey(r) = key /\ r.period_start = period_start}

\* a session before its first write
NewSession == [new |-> {}, dirty |-> {}, stats_created |-> 0, sens |-> {}]

\* variant: the update leaves computed_at as it was
UpdateExisting_KeepsTimestamp(existing, row, v, now) ==
    [existing EXCEPT !.n_users = row.n_users,
                     !.avg_planned_hours_noised = v.planned,
                     !.avg_actual_hours_noised = v.actual,
                     !.avg_overtime_hours_noised = v.overtime,
                     !.k_min_threshold = K_MIN,
                     !.noise_epsilon = Round2(EPSILON)]

\* the update branch: the existing row overwritten in place
UpdateExisting(existing, row, v, now) ==
    [existing EXCEPT !.n_users = row.n_users,
                     !.avg_planned_hours_noised = v.planned,
                     !.avg_actual_hours_noised = v.actual,
                     !.avg_overtime_hours_noised = v.overtime,
                     !.k_min_threshold = K_MIN,
                     !.noise_epsilon = Round2(EPSILON),
                     !.computed_at = now]

\* the insert branch: StatsByStateSpecialty(...); stat_id and computed_at are
\* column defaults, set when the row is flushed
NewStat(row, period, v) ==
    [stat_id |-> 0,
     country_code |-> row.key.country_code,
     state_code |-> row.key.state_code,
     specialty |-> row.key.specialty,
     role_level |-> row.key.role_level,
     period_start |-> period.period_start,
     period_end |-> period.period_end,
     n_users |-> row.n_users,
     avg_planned_hours_noised |-> v.planned,
     avg_actual_hours_noised |-> v.actual,
     avg_overtime_hours_noised |-> v.overtime,
     k_min_threshold |-> K_MIN,
     noise_epsilon |-> Round2(EPSILON),
     computed_at |-> 0]

\* the session with the sensitivity handed to the noise noted
Noted(sess, row) ==
    [sess EXCEPT !.sens = @ \cup {<<row.key, Sensitivity(row.n_users)>>}]

\* variant: the update branch counts as a creation too
Stage_CountsUpdates(sess, row, period, v, existing, now) ==
    IF existing # {}
    THEN [sess EXCEPT !.dirty = {d \in @ : \A old \in existing : d.stat_id # old.stat_id}
                                  \cup {UpdateExisting(old, row, v, now) : old \in existing},
                      !.stats_created = @ + 1]
    ELSE [sess EXCEPT !.new = @ \cup {NewStat(row, period, v)},
                      !.stats_created = @ + 1]

\* lines 169-197: update the row the lookup found, or add a new one
Stage(sess, row, period, v, existing, now) ==
    IF existing # {}
    THEN [sess EXCEPT !.dirty = {d \in @ : \A old \in existing : d.stat_id # old.stat_id}
                                  \cup {UpdateExisting(old, row, v, now) : old \in existing}]
    ELSE [sess EXCEPT !.new = @ \cup {NewStat(row, period, v)},
                      !.stats_created = @ + 1]

\* one pass of the loop body over a result row; st is the table as the
\* session reads it, now the time of the pass
ProcessRow(sess, row, st, period, draws, now) ==
    IF ~Accepted(row.n_users) THEN sess
    ELSE Stage(Noted(sess, row), row, period, NoisedValues(row, draws),
               Existing(st, row.key, period.period_start), now)

RECURSIVE Loop(_, _, _, _, _, _, _)
\* for row in results: ...
Loop(sess, results, i, st, period, draws, now) ==
    IF i > Len(results) THEN sess
    ELSE Loop(ProcessRow(sess, results[i], st, period, draws[results[i].key], now),
              results, i + 1, st, period, draws, now)

NaturalKey(r) == <<CohortKey(r), r.period_start>>

\* uq_stats_state_spec_period: would the table still have one row per key
\* once the pending rows are inserted
UniqueOk(st, pending) ==
    /\ \A a \in pending : \A r \in st : NaturalKey(a) # NaturalKey(r)
    /\ \A a, b \in pending : NaturalKey(a) = NaturalKey(b) => a = b

CohortIndex(c) == CHOOSE i \in 1..Len(CohortOrder) : CohortOrder[i] = c

RECURSIVE Insert(_, _, _)
\* the INSERTs of a flush: each pending row gets a fresh stat_id and the
\* column default of computed_at
Insert(st, pending, now) ==
    IF pending = {} THEN st
    ELSE LET a == CHOOSE x \in pending :
                    \A y \in pending : CohortIndex(CohortKey(x)) <= CohortIndex(CohortKey(y))
             row == [a EXCEPT !.stat_id = Cardinality(st) + 1, !.computed_at = now]
         IN  Insert(st \cup {row}, pending \ {a}, now)

\* stats_by_state_specialty.state_code is NOT NULL
NotNullOk(pending) == \A a \in pending : a.state_code # None

\* variant: the rows flushed before the error stay in the table
Commit_NoRollback(st, sess, now) ==
    IF ~UniqueOk(st, sess.new) \/ ~NotNullOk(sess.new)
    THEN [ok |-> FALSE, stats |-> Insert(st, sess.new, now)]
    ELSE [ok |-> TRUE,
          stats |-> Insert({IF \E d \in sess.dirty : d.stat_id = r.stat_id
                            THEN CHOOSE d \in sess.dirty : d.stat_id = r.stat_id
                            ELSE r : r \in st}, sess.new, now)]

\* db.commit(): flush the session in one transaction; a violated constraint
\* raises IntegrityError and nothing of the session is persisted
Commit(st, sess, now) ==
    IF ~UniqueOk(st, sess.new) \/ ~NotNullOk(sess.new)
    THEN [ok |-> FALSE, stats |-> st]
    ELSE LET updated == {IF \E d \in sess.dirty : d.stat_id = r.stat_id
                         THEN CHOOSE d \in sess.dirty : d.stat_id = r.stat_id
                         ELSE r : r \in st}
         IN  [ok |-> TRUE, stats |-> Insert(updated, sess.new, now)]

\* compute_aggregates_by_state_specialty(db, target_date) run to its end on
\* the tables us, evs, st, with the given uniform draws
\* lines 199-206: commit, then return stats_created
Returned(done, sess, period, results) ==
    [ok |-> done.ok, stats |-> done.stats, stats_created |-> sess.stats_created,
     period |-> period, results |-> results, sens |-> sess.sens]

Finished(st, sess, period, results, now) ==
    Returned(Commit(st, sess, now), sess, period, results)

\* lines 121-206 on the rows the query returned
Publish(st, period, results, draws, now) ==
    Finished(st, Loop(NewSession, results, 1, st, period, draws, now),
             period, results, now)

\* lines 91-206 for the resolved window; an error raised by line 89 ends the
\* call before the query
RunPeriod(us, evs, st, period, draws, now) ==
    IF ~period.ok
    THEN [ok |-> FALSE, stats |-> st, stats_created |-> 0, period |-> period,
          results |-> <<>>, sens |-> {}]
    ELSE Publish(st, period,
                 QueryResults(us, evs, period.period_start, period.period_end),
                 draws, now)

compute_aggregates_by_state_specialty(us, evs, st, target_date, draws, now) ==
    RunPeriod(us, evs, st, ResolvePeriod(target_date), draws, now)

(***************************************************************************)
(* State                                                                   *)
(***************************************************************************)
\* the uniform draws of a run, per cohort <<u_planned, u_actual, u_overtime>>
\* in units of 1 / UDen
RunDraws ==
    {[c \in AllCohorts |-> <<-1, 1, 0>>], [c \in AllCohorts |-> <<1, -2, -1>>]}

NoRun ==
    [seq |-> 0, ok |-> TRUE, target |-> 0, period_start |-> 0, period_end |-> 0,
     counts |-> [c \in AllCohorts |-> 0], stats_created |-> 0, sens |-> {},
     changes |-> 0, rerun |-> FALSE, draws |-> [c \in AllCohorts |-> <<0, 0, 0>>]]

WkIdle == [date |-> 0, st |-> "idle", period_start |-> 0, period_end |-> 0]

\* no call of a pure function in progress
NoCall == [st |-> "idle"]

Init ==
    /\ users = IdleUsers
    /\ work_events = IdleEvents
    /\ stats = {}
    /\ clock = 0
    /\ changes = 0
    /\ lastRun = NoRun
    /\ sessions = <<>>
    /\ wk = WkIdle
    /\ call = NoCall

Registered(u) == \E r \in users : r.user_id = u

HasEvent(u, d) == \E e \in work_events : e.user_id = u /\ e.date = d

\* POST /auth/register: a new account; the database gives it a fresh user_id
register_user(c) ==
    /\ changes < MaxChanges
    /\ \E u \in Actors :
         /\ ~Registered(u)
         /\ \A v \in Actors : v < u => Registered(v)
         /\ users' = users \cup {UserRow(u, c)}
    /\ changes' = changes + 1
    /\ UNCHANGED <<work_events, stats, clock, lastRun, sessions, wk, call>>

\* DELETE /auth/me: the user row goes, its work events go by cascade, the
\* published statistics stay
delete_account(u) ==
    /\ changes < MaxChanges
    /\ Registered(u)
    /\ users' = {r \in users : r.user_id # u}
    /\ work_events' = {e \in work_events : e.user_id # u}
    /\ changes' = changes + 1
    /\ UNCHANGED <<stats, clock, lastRun, sessions, wk, call>>

\* POST /work-events: 409 when the user already has a record for the date
create_work_event(u, d, h) ==
    /\ changes < MaxChanges
    /\ Registered(u)
    /\ ~HasEvent(u, d)
    /\ work_events' = work_events \cup {EventRow(u, d, h)}
    /\ changes' = changes + 1
    /\ UNCHANGED <<users, stats, clock, lastRun, sessions, wk, call>>

\* PATCH /work-events/{event_id}
update_work_event(u, d, h) ==
    /\ changes < MaxChanges
    /\ Registered(u)
    /\ HasEvent(u, d)
    /\ EventRow(u, d, h) \notin work_events
    /\ work_events' = {e \in work_events : ~(e.user_id = u /\ e.date = d)}
                        \cup {EventRow(u, d, h)}
    /\ changes' = changes + 1
    /\ UNCHANGED <<users, stats, clock, lastRun, sessions, wk, call>>

\* DELETE /work-events/{event_id}
delete_work_event(u, d) ==
    /\ changes < MaxChanges
    /\ Registered(u)
    /\ HasEvent(u, d)
    /\ work_events' = {e \in work_events : ~(e.user_id = u /\ e.date = d)}
    /\ changes' = changes + 1
    /\ UNCHANGED <<users, stats, clock, lastRun, sessions, wk, call>>

CountsOf(results) ==
    [c \in AllCohorts |->
        IF \E i \in 1..Len(results) : results[i].key = c
        THEN (CHOOSE r \in {results[i] : i \in 1..Len(results)} : r.key = c).n_users
        ELSE 0]

\* what the call left behind: the table and the record of the run
RunDone(run, target_date, draws) ==
    /\ stats' = run.stats
    /\ lastRun' = [seq |-> clock + 1, ok |-> run.ok, target |-> target_date,
                   period_start |-> run.period.period_start,
                   period_end |-> run.period.period_end,
                   counts |-> CountsOf(run.results),
                   stats_created |-> run.stats_created,
                   sens |-> run.sens, changes |-> changes,
                   rerun |-> /\ lastRun.seq > 0
                             /\ lastRun.ok
                             /\ lastRun.changes = changes
                             /\ lastRun.period_start = run.period.period_start,
                   draws |-> draws]

\* one aggregation run from start to commit (the scheduler's main())
Aggregate(target_date, draws) ==
    /\ clock < MaxRuns
    /\ RunDone(compute_aggregates_by_state_specialty(
                   users, work_events, stats, target_date, draws, clock + 1),
               target_date, draws)
    /\ clock' = clock + 1
    /\ UNCHANGED <<users, work_events, changes, sessions, wk, call>>

Next ==
    \/ \E c \in Cohorts : register_user(c)
    \/ \E u \in Actors : delete_account(u)
    \/ \E u \in Actors, d \in EventDates, h \in HoursIn : create_work_event(u, d, h)
    \/ \E u \in Actors, d \in EventDates, h \in HoursIn : update_work_event(u, d, h)
    \/ \E u \in Actors, d \in EventDates : delete_work_event(u, d)
    \/ \E t \in TargetDates, draws \in RunDraws : Aggregate(t, draws)

Spec == Init /\ [][Next]_vars

(***************************************************************************)
(* The period resolver on its own                                          *)
(***************************************************************************)
\* calendar years whose every day is resolved, next to the first and the
\* last year a date can have
NYears == 28

WeekYears == {MINYEAR, MAXYEAR} \cup (2000..(2000 + NYears - 1))

WeekDates ==
    UNION {{DaysBeforeYear(y) + n : n \in 1..DaysInYear(y)} : y \in WeekYears}

InitWeek ==
    /\ users = IdleUsers
    /\ work_events = IdleEvents
    /\ stats = {}
    /\ clock = 0
    /\ changes = 0
    /\ lastRun = NoRun
    /\ sessions = <<>>
    /\ wk \in {[date |-> d, st |-> "in", period_start |-> 0, period_end |-> 0] :
                d \in WeekDates}
    /\ call = NoCall

\* lines 87-89 for the reference date wk.date
Resolved(period) ==
    wk' = [wk EXCEPT !.st = IF period.ok THEN "out" ELSE "err",
                     !.period_start = period.period_start,
                     !.period_end = period.period_end]

resolve_period ==
    /\ wk.st = "in"
    /\ Resolved(ResolvePeriod(wk.date))
    /\ UNCHANGED <<users, work_events, stats, clock, changes, lastRun, sessions, call>>

NextWeek == resolve_period

SpecWeek == InitWeek /\ [][NextWeek]_vars

(***************************************************************************)
(* Overlapping runs: each run is a session of its own against the same     *)
(* tables; its query, its loop passes and its commit are separate steps    *)
(***************************************************************************)
\* runs that may overlap
NRunners == 2

Runners == 1..NRunners

IdleRun ==
    [pc |-> "idle", target |-> 0, period |-> [ok |-> TRUE, period_start |-> 0, period_end |-> 0],
     results |-> <<>>, i |-> 1, sess |-> NewSession,
     draws |-> [c \in AllCohorts |-> <<0, 0, 0>>], now |-> 0]

InitConc ==
    /\ users = IdleUsers
    /\ work_events = IdleEvents
    /\ stats = {}
    /\ clock = 0
    /\ changes = 0
    /\ lastRun = NoRun
    /\ sessions = [p \in Runners |-> IdleRun]
    /\ wk = WkIdle
    /\ call = NoCall

\* lines 84-121: the window and the grouped query
Begun(target_date, period, draws, now) ==
    [pc |-> IF period.ok THEN "loop" ELSE "failed",
     target |-> target_date, period |-> period,
     results |-> IF period.ok
                 THEN QueryResults(users, work_events,
                                   period.period_start, period.period_end)
                 ELSE <<>>,
     i |-> 1, sess |-> NewSession, draws |-> draws, now |-> now]

begin_run(p, target_date, draws) ==
    /\ sessions[p].pc = "idle"
    /\ sessions' = [sessions EXCEPT ![p] =
                       Begun(target_date, ResolvePeriod(target_date), draws, clock + 1)]
    /\ clock' = clock + 1
    /\ UNCHANGED <<users, work_events, stats, changes, lastRun, wk, call>>

\* lines 123-197: one pass of the loop; the lookup reads the table as it is
\* committed at that moment
Passed(r) ==
    [r EXCEPT !.sess = ProcessRow(r.sess, r.results[r.i], stats, r.period,
                                  r.draws[r.results[r.i].key], r.now),
              !.i = r.i + 1]

loop_pass(p) ==
        /\ sessions[p].pc = "loop"
        /\ sessions[p].i <= Len(sessions[p].results)
        /\ sessions' = [sessions EXCEPT ![p] = Passed(sessions[p])]
        /\ UNCHANGED <<users, work_events, stats, clock, changes, lastRun, wk, call>>

\* line 199: db.commit(); an IntegrityError ends the run with nothing written
Committed(p, done) ==
    /\ stats' = done.stats
    /\ sessions' = [sessions EXCEPT ![p].pc = IF done.ok THEN "done" ELSE "failed"]

commit_run(p) ==
        /\ sessions[p].pc = "loop"
        /\ sessions[p].i > Len(sessions[p].results)
        /\ Committed(p, Commit(stats, sessions[p].sess, sessions[p].now))
        /\ UNCHANGED <<users, work_events, clock, changes, lastRun, wk, call>>

NextConc ==
    \/ \E p \in Runners, t \in TargetDates, draws \in RunDraws : begin_run(p, t, draws)
    \/ \E p \in Runners : loop_pass(p)
    \/ \E p \in Runners : commit_run(p)

SpecConc == InitConc /\ [][NextConc]_vars

(***************************************************************************)
(* laplace_noise on its own: a call with given epsilon and sensitivity,    *)
(* the uniform draw chosen by the generator                                *)
(***************************************************************************)
\* cohort sizes above the threshold whose sensitivity is handed to the call
MaxExtra == 7

\* privacy budgets: EPSILON, the 0.1 of the test, and one on either side
NoiseEpsilons == {<<1, 10>>, <<1, 2>>, EPSILON, <<2, 1>>}

\* sensitivities: the 1.0 of the test and 168 / n of the publishable sizes
NoiseSensitivities ==
    {<<1, 1>>} \cup {Sensitivity(n) : n \in K_MIN..(K_MIN + MaxExtra)}

\* secrets.SystemRandom().uniform(-0.5, 0.5), to the resolution 1 / UDen
UniformDraws == {Frac(k, UDen) : k \in (-(UDen \div 2))..(UDen \div 2)}

InitNoise ==
    /\ users = IdleUsers
    /\ work_events = IdleEvents
    /\ stats = {}
    /\ clock = 0
    /\ changes = 0
    /\ lastRun = NoRun
    /\ sessions = <<>>
    /\ wk = WkIdle
    /\ call \in {[st |-> "in", epsilon |-> e, sensitivity |-> s] :
                    e \in NoiseEpsilons, s \in NoiseSensitivities}

\* the call returned: its arguments, its draw and its value
NoiseReturned(epsilon, sensitivity, u) ==
    [st |-> "out", epsilon |-> epsilon, sensitivity |-> sensitivity, u |-> u,
     noise |-> laplace_noise(epsilon, sensitivity, u)]

call_laplace_noise(u) ==
    /\ call.st = "in"
    /\ call' = NoiseReturned(call.epsilon, call.sensitivity, u)
    /\ UNCHANGED <<users, work_events, stats, clock, changes, lastRun, sessions, wk>>

NextNoise == \E u \in UniformDraws : call_laplace_noise(u)

SpecNoise == InitNoise /\ [][NextNoise]_vars

(***************************************************************************)
(* Runs over a fixed population that may hold accounts without a state     *)
(***************************************************************************)
\* sizes <<BY, HH, no state>> of the three cohorts around the threshold
BatchSizes ==
    {<<b, K_MIN + 1, n>> : b \in {K_MIN - 1, K_MIN}, n \in {0, K_MIN - 1, K_MIN}}

BatchUsers(sizes) ==
    {UserRow(id, CohortBY) : id \in 1..sizes[1]}
        \cup {UserRow(sizes[1] + id, CohortHH) : id \in 1..sizes[2]}
        \cup {UserRow(sizes[1] + sizes[2] + id, CohortNone) : id \in 1..sizes[3]}

\* every account has the same record on each of the fixture's dates
BatchEvents(us, h) == {EventRow(u.user_id, d, h) : <<u, d>> \in us \X IdleDates}

\* the draws of a run: those of RunDraws, all three at u = 0 (the largest
\* negative noise), at the upper end and a mixed one
BatchDraws ==
    RunDraws \cup {[c \in AllCohorts |-> t] : t \in {<<0, 0, 0>>, <<2, 2, 2>>, <<-2, -1, 1>>}}

InitBatch ==
    /\ \E z \in BatchSizes, h \in HoursIn :
          /\ users = BatchUsers(z)
          /\ work_events = BatchEvents(BatchUsers(z), h)
    /\ stats = {}
    /\ clock = 0
    /\ changes = 0
    /\ lastRun = NoRun
    /\ sessions = <<>>
    /\ wk = WkIdle
    /\ call = NoCall

NextBatch == \E t \in TargetDates, draws \in BatchDraws : Aggregate(t, draws)

SpecBatch == InitBatch /\ [][NextBatch]_vars

(***************************************************************************)
(* The legacy analytics path (routers/analytics.py): the bootstrap         *)
(* confidence interval of a sample list                                    *)
(***************************************************************************)
SUPPRESSION_THRESHOLD == 5

BOOTSTRAP_ITERATIONS == 200

\* NOISE_SCALE = 0.05 hours
NOISE_SCALE == <<1, 20>>

\* longest sample list handed to _bootstrap_ci on its own
MaxSamples == 3

\* largest iteration count for which every sequence of resample means is tried
MaxFullIter == 3

\* beyond MaxFullIter the resample means take two values, one of them at
\* most MaxTail times
MaxTail == 10

\* a float that is None, and one that has the value x
NoValue == <<>>

Some(x) == <<x>>

Min(a, b) == IF a < b THEN a ELSE b

Max(a, b) == IF a > b THEN a ELSE b

\* int(x) for x >= 0
Trunc(x) == x[1] \div x[2]

\* hours values of the reports, in hundredths (Numeric(5,2))
SampleValues == {800, 1000}

RECURSIVE ListsOf(_, _)
\* the lists of length n over the set S
ListsOf(S, n) ==
    IF n = 0 THEN {<<>>}
    ELSE {Append(l, v) : l \in ListsOf(S, n - 1), v \in S}

RECURSIVE SumsOf(_, _)
\* the sums of k picks, with replacement, from the set S
SumsOf(S, k) ==
    IF k = 0 THEN {0}
    ELSE {t + v : t \in SumsOf(S, k - 1), v \in S}

\* line 233-234: the means a resample of the list can have
ResampleMeans(samples) ==
    {Frac(t, 100 * Len(samples)) :
        t \in SumsOf({samples[j] : j \in 1..Len(samples)}, Len(samples))}

\* iterations means of which the first i are b and the others a
TwoLevel(iterations, a, b, i) == [j \in 1..iterations |-> IF j <= i THEN b ELSE a]

\* how many of the means are b: few, or all but few
Splits(iterations) ==
    {i \in 0..iterations : i <= MaxTail \/ i >= iterations - MaxTail}

\* lines 231-234: the list of resample means the loop can build; none is
\* drawn when the function returns at line 227 or 230
MeanDraws(samples, iterations) ==
    IF Len(samples) < 2 THEN {<<>>}
    ELSE IF iterations <= MaxFullIter
         THEN [1..iterations -> ResampleMeans(samples)]
         ELSE {TwoLevel(iterations, a, b, i) :
                  a \in ResampleMeans(samples), b \in ResampleMeans(samples),
                  i \in Splits(iterations)}

\* variant: the list is read without being sorted
SortedAt_Unsorted(means, i) == means[i + 1]

\* means.sort(); means[i], i counted from 0
SortedAt(means, i) ==
    CHOOSE v \in {means[j] : j \in 1..Len(means)} :
        /\ Cardinality({j \in 1..Len(means) : FLess(means[j], v)}) <= i
        /\ i < Cardinality({j \in 1..Len(means) : FLeq(means[j], v)})

\* variant: the lower index without the - 1
LowerIndex_NoMinusOne(alpha, iterations) ==
    Max(Trunc(FMul(FDiv(alpha, <<2, 1>>), <<iterations, 1>>)), 0)

\* line 236
LowerIndex(alpha, iterations) ==
    Max(Trunc(FMul(FDiv(alpha, <<2, 1>>), <<iterations, 1>>)) - 1, 0)

\* line 237
UpperIndex(alpha, iterations) ==
    Min(Trunc(FMul(FSub(<<1, 1>>, FDiv(alpha, <<2, 1>>)), <<iterations, 1>>)),
        iterations - 1)

\* variant: an empty list gives the interval (0.0, 0.0)
BootstrapCi_EmptyAsZero(samples, iterations, alpha, means) ==
    IF Len(samples) = 0 THEN <<Some(<<0, 1>>), Some(<<0, 1>>)>>
    ELSE IF Len(samples) = 1
         THEN <<Some(Frac(samples[1], 100)), Some(Frac(samples[1], 100))>>
         ELSE <<Some(SortedAt(means, LowerIndex(alpha, iterations))),
                Some(SortedAt(means, UpperIndex(alpha, iterations)))>>

\* _bootstrap_ci(samples, iterations, alpha) for the resample means drawn
BootstrapCi(samples, iterations, alpha, means) ==
    IF Len(samples) = 0 THEN <<NoValue, NoValue>>
    ELSE IF Len(samples) = 1
         THEN <<Some(Frac(samples[1], 100)), Some(Frac(samples[1], 100))>>
         ELSE <<Some(SortedAt(means, LowerIndex(alpha, iterations))),
                Some(SortedAt(means, UpperIndex(alpha, iterations)))>>

\* iteration counts: the small ones, one where both indices are inside the
\* list for alpha = 1/2, and the default
BootIterations == (1..MaxFullIter) \cup {6, BOOTSTRAP_ITERATIONS}

\* significance levels: the default 0.05 and 0.5
BootAlphas == {<<1, 20>>, <<1, 2>>}

InitBoot ==
    /\ users = IdleUsers
    /\ work_events = IdleEvents
    /\ stats = {}
    /\ clock = 0
    /\ changes = 0
    /\ lastRun = NoRun
    /\ sessions = <<>>
    /\ wk = WkIdle
    /\ call \in {[st |-> "in", samples |-> l, iterations |-> r, alpha |-> a] :
                    l \in UNION {ListsOf(SampleValues, n) : n \in 0..MaxSamples},
                    r \in BootIterations, a \in BootAlphas}

\* the call returned: its arguments, the means it drew, the indices it read
\* (when it came to line 236) and its value
BootReturned(samples, iterations, alpha, means) ==
    [st |-> "out", samples |-> samples, iterations |-> iterations, alpha |-> alpha,
     means |-> means,
     lower_index |-> IF Len(samples) < 2 THEN -1 ELSE LowerIndex(alpha, iterations),
     upper_index |-> IF Len(samples) < 2 THEN -1 ELSE UpperIndex(alpha, iterations),
     result |-> BootstrapCi(samples, iterations, alpha, means)]

call_bootstrap_ci(means) ==
    /\ call.st = "in"
    /\ call' = BootReturned(call.samples, call.iterations, call.alpha, means)
    /\ UNCHANGED <<users, work_events, stats, clock, changes, lastRun, sessions, wk>>

NextBoot ==
    /\ call.st = "in"
    /\ \E means \in MeanDraws(call.samples, call.iterations) : call_bootstrap_ci(means)

SpecBoot == InitBoot /\ [][NextBoot]_vars

(***************************************************************************)
(* The legacy analytics path: GET /analytics/ over the reports table.      *)
(* The request is followed row by row: the hospital query and its loop,    *)
(* then the staff-group query and its loop, then the response.             *)
(***************************************************************************)
\* most reports of one hospital in the month
MaxReports == 5

\* the hospital domains in the order the query sorts them
LegacyDomains == <<"a.example", "b.example">>

\* the staff_group parameter: absent, the group of the reports, another one
StaffGroupFilters == {None, "group_a", "group_b"}

\* na reports of the first hospital, the last of them with actual hours
\* `last`, each with overtime ov, and nb reports of the second hospital
LegacyReports(na, nb, last, ov) ==
    {[id |-> j, hospital_domain |-> LegacyDomains[1], staff_group |-> "group_a",
      month_start |-> Date(2025, 12, 1),
      actual_hours_worked |-> IF j = na THEN last ELSE 800,
      overtime_hours |-> ov] : j \in 1..na}
    \cup
    {[id |-> na + j, hospital_domain |-> LegacyDomains[2], staff_group |-> "group_a",
      month_start |-> Date(2025, 12, 1),
      actual_hours_worked |-> 1000, overtime_hours |-> 0] : j \in 1..nb}

RECURSIVE ArrayAgg(_, _)
\* func.array_agg(column) over the reports G, in the order of their ids
ArrayAgg(G, f) ==
    IF G = {} THEN <<>>
    ELSE LET x == CHOOSE y \in G : \A z \in G : y.id <= z.id
         IN  <<x[f]>> \o ArrayAgg(G \ {x}, f)

\* the selected columns of one group G of reports; domain is None in the
\* staff-group query
LegacyRow(domain, G) ==
    [hospital_domain |-> domain, staff_group |-> "group_a",
     month_start |-> Date(2025, 12, 1),
     report_count |-> Cardinality(G),
     total_actual_hours |-> SumOver(G, "actual_hours_worked"),
     total_overtime_hours |-> SumOver(G, "overtime_hours"),
     actual_samples |-> ArrayAgg(G, "actual_hours_worked"),
     overtime_samples |-> ArrayAgg(G, "overtime_hours")]

\* the reports the where clauses keep
Filtered(reports, staff_group) ==
    {r \in reports : staff_group = None \/ r.staff_group = staff_group}

\* lines 70-86: one row per (hospital_domain, staff_group, month)
HospitalRows(reports, staff_group) ==
    SelectSeq([k \in 1..Len(LegacyDomains) |->
                  LegacyRow(LegacyDomains[k],
                            {r \in Filtered(reports, staff_group) :
                                r.hospital_domain = LegacyDomains[k]})],
              LAMBDA row : row.report_count > 0)

\* lines 126-141: one row per (staff_group, month)
StaffGroupRows(reports, staff_group) ==
    SelectSeq(<<LegacyRow(None, Filtered(reports, staff_group))>>,
              LAMBDA row : row.report_count > 0)

\* variant: a grouping exactly at the threshold is suppressed too
Suppressed_AtThreshold(report_count) == report_count <= SUPPRESSION_THRESHOLD

\* lines 91 and 146
Suppressed(report_count) == report_count < SUPPRESSION_THRESHOLD

\* random.random(), of which 0.0 is a possible value
RandomDraws == {<<0, 1>>, <<1, 4>>, <<3, 4>>}

\* math.log to two places, for the arguments the draws give: log(1) and
\* log(0.5)
Ln(x) == IF x = <<1, 1>> THEN <<0, 1>> ELSE Frac(-69, 100)

\* the argument of the logarithm at line 249 for random.random() = r
LogArg(r) == FSub(<<1, 1>>, FMul(<<2, 1>>, FAbs(FSub(r, <<1, 2>>))))

\* math.copysign(1.0, u) for u = r - 0.5
CopySign(r) == IF FLess(r, <<1, 2>>) THEN <<-1, 1>> ELSE <<1, 1>>

\* _laplace_noise(scale) for random.random() = r # 0
LegacyNoise(scale, r) == FMul(FMul(FNeg(scale), CopySign(r)), Ln(LogArg(r)))

\* _apply_dp(value): None stays None; math.log(0.0) raises ValueError
ApplyDp(value, r) ==
    IF value = NoValue THEN [ok |-> TRUE, value |-> NoValue]
    ELSE IF LogArg(r) = <<0, 1>> THEN [ok |-> FALSE, value |-> NoValue]
    ELSE [ok |-> TRUE, value |-> Some(FAdd(value[1], LegacyNoise(NOISE_SCALE, r)))]

\* _safe_float(value): None, or the value rounded to hundredths
SafeFloat(value) == IF value = NoValue THEN NoValue ELSE Some(Round2(value[1]))

NoMetrics ==
    [avg_actual |-> NoValue, avg_overtime |-> NoValue,
     ci_actual_low |-> NoValue, ci_actual_high |-> NoValue,
     ci_overtime_low |-> NoValue, ci_overtime_high |-> NoValue]

\* variant: the bounds are left in the order the noise put them
Ordered_NoSwap(low, high) == <<low, high>>

\* lines 198-201: swap the bounds when both are there and low > high
Ordered(low, high) ==
    IF low # NoValue /\ high # NoValue /\ FLess(high[1], low[1])
    THEN <<high, low>> ELSE <<low, high>>

\* variant: the averages carry the noise of the bounds
MetricsOf_NoisedAverages(avg_actual, avg_overtime, ci_actual, ci_overtime) ==
    [avg_actual |-> SafeFloat(ci_actual[1]),
     avg_overtime |-> SafeFloat(ci_overtime[1]),
     ci_actual_low |-> SafeFloat(ci_actual[1]),
     ci_actual_high |-> SafeFloat(ci_actual[2]),
     ci_overtime_low |-> SafeFloat(ci_overtime[1]),
     ci_overtime_high |-> SafeFloat(ci_overtime[2])]

\* lines 203-210
MetricsOf(avg_actual, avg_overtime, ci_actual, ci_overtime) ==
    [avg_actual |-> avg_actual, avg_overtime |-> avg_overtime,
     ci_actual_low |-> SafeFloat(ci_actual[1]),
     ci_actual_high |-> SafeFloat(ci_actual[2]),
     ci_overtime_low |-> SafeFloat(ci_overtime[1]),
     ci_overtime_high |-> SafeFloat(ci_overtime[2])]

\* lines 193-210 for the four results of _apply_dp
Noised4(avg_actual, avg_overtime, al, ah, ol, oh) ==
    IF ~(al.ok /\ ah.ok /\ ol.ok /\ oh.ok) THEN [ok |-> FALSE, metrics |-> NoMetrics]
    ELSE [ok |-> TRUE,
          metrics |-> MetricsOf(avg_actual, avg_overtime,
                                Ordered(al.value, ah.value),
                                Ordered(ol.value, oh.value))]

\* _compute_metrics(actual_samples, overtime_samples, count, suppressed) for
\* the two intervals _bootstrap_ci returns at lines 190-191 and the random
\* numbers drawn after them
ComputeMetrics(actual_samples, overtime_samples, count, suppressed, ci_actual, ci_overtime, rs) ==
    IF suppressed \/ count = 0 THEN [ok |-> TRUE, metrics |-> NoMetrics]
    ELSE Noised4(Some(Round2(Frac(SumOver({[k |-> j, v |-> actual_samples[j]] :
                                             j \in 1..Len(actual_samples)}, "v"),
                                  100 * count))),
                 Some(Round2(Frac(SumOver({[k |-> j, v |-> overtime_samples[j]] :
                                             j \in 1..Len(overtime_samples)}, "v"),
                                  100 * count))),
                 ApplyDp(ci_actual[1], rs[1]), ApplyDp(ci_actual[2], rs[2]),
                 ApplyDp(ci_overtime[1], rs[3]), ApplyDp(ci_overtime[2], rs[4]))

\* lines 97-113 and 152-167: the summary of a row
Summary(row, suppressed, metrics) ==
    [hospital_domain |-> row.hospital_domain,
     staff_group |-> row.staff_group,
     month_start |-> row.month_start,
     report_count |-> row.report_count,
     average_actual_hours |-> IF suppressed THEN NoValue ELSE metrics.avg_actual,
     average_overtime_hours |-> IF suppressed THEN NoValue ELSE metrics.avg_overtime,
     total_actual_hours |-> IF suppressed THEN NoValue
                            ELSE SafeFloat(Some(Frac(row.total_actual_hours, 100))),
     total_overtime_hours |-> IF suppressed THEN NoValue
                              ELSE SafeFloat(Some(Frac(row.total_overtime_hours, 100))),
     ci_actual_low |-> IF suppressed THEN NoValue ELSE metrics.ci_actual_low,
     ci_actual_high |-> IF suppressed THEN NoValue ELSE metrics.ci_actual_high,
     ci_overtime_low |-> IF suppressed THEN NoValue ELSE metrics.ci_overtime_low,
     ci_overtime_high |-> IF suppressed THEN NoValue ELSE metrics.ci_overtime_high,
     suppressed |-> suppressed]

\* the smallest and the largest element of a set of fractions
Extremes(S) ==
    {x \in S : (\A y \in S : FLeq(x, y)) \/ (\A y \in S : FLeq(y, x))}

\* the resample means of a request: all equal, or MaxTail of them at one
\* end of the range and the others at the other end
ExtremeDraws(samples) ==
    IF Len(samples) < 2 THEN {<<>>}
    ELSE {TwoLevel(BOOTSTRAP_ITERATIONS, a, b, i) :
             a \in Extremes(ResampleMeans(samples)),
             b \in Extremes(ResampleMeans(samples)), i \in {0, MaxTail}}

InitLegacy ==
    /\ users = IdleUsers
    /\ work_events = IdleEvents
    /\ stats = {}
    /\ clock = 0
    /\ changes = 0
    /\ lastRun = NoRun
    /\ sessions = <<>>
    /\ wk = WkIdle
    /\ call \in {[st |-> "in", reports |-> LegacyReports(na, nb, last, ov),
                  staff_group |-> f, rows |-> <<>>, i |-> 1,
                  hospital_monthly |-> <<>>, staff_group_monthly |-> <<>>] :
                    na \in 0..MaxReports, nb \in 0..1, last \in SampleValues,
                    ov \in {0, 100}, f \in StaffGroupFilters}

\* line 89: the hospital query is executed
hospital_query ==
    /\ call.st = "in"
    /\ call' = [call EXCEPT !.st = "hospital",
                            !.rows = HospitalRows(call.reports, call.staff_group),
                            !.i = 1]
    /\ UNCHANGED <<users, work_events, stats, clock, changes, lastRun, sessions, wk>>

\* the request after one pass of a loop: the summary appended to the list
\* `list`, or the request ended by the exception
RowDone(list, row, done) ==
    IF ~done.ok THEN [call EXCEPT !.st = "err"]
    ELSE [call EXCEPT ![list] = Append(@, Summary(row, Suppressed(row.report_count),
                                                  done.metrics)),
                      !.i = @ + 1]

\* what a pass draws: nothing when the row is suppressed
IntervalsDrawn(samples, report_count) ==
    IF Suppressed(report_count) THEN {<<NoValue, NoValue>>}
    ELSE {BootstrapCi(samples, BOOTSTRAP_ITERATIONS, <<1, 20>>, means) :
             means \in ExtremeDraws(samples)}

\* the random numbers of one call of _compute_metrics, one per bound; none
\* when the row is suppressed
NoiseDrawn(report_count) ==
    IF Suppressed(report_count) THEN {<<>>}
    ELSE RandomDraws \X RandomDraws \X RandomDraws \X RandomDraws

\* lines 90-113 and 145-167 for the row at hand
summarise_row(list, row) ==
    /\ \E ci_actual \in IntervalsDrawn(row.actual_samples, row.report_count),
          ci_overtime \in IntervalsDrawn(row.overtime_samples, row.report_count),
          rs \in NoiseDrawn(row.report_count) :
            call' = RowDone(list, row,
                            ComputeMetrics(row.actual_samples, row.overtime_samples,
                                           row.report_count,
                                           Suppressed(row.report_count),
                                           ci_actual, ci_overtime, rs))
    /\ UNCHANGED <<users, work_events, stats, clock, changes, lastRun, sessions, wk>>

\* one pass of the loop of _fetch_hospital_monthly
hospital_row ==
    /\ call.st = "hospital"
    /\ call.i <= Len(call.rows)
    /\ summarise_row("hospital_monthly", call.rows[call.i])

\* line 144: the staff-group query is executed once the first loop has ended
staff_group_query ==
    /\ call.st = "hospital"
    /\ call.i > Len(call.rows)
    /\ call' = [call EXCEPT !.st = "staff",
                            !.rows = StaffGroupRows(call.reports, call.staff_group),
                            !.i = 1]
    /\ UNCHANGED <<users, work_events, stats, clock, changes, lastRun, sessions, wk>>

\* one pass of the loop of _fetch_staff_group_monthly
staff_group_row ==
    /\ call.st = "staff"
    /\ call.i <= Len(call.rows)
    /\ summarise_row("staff_group_monthly", call.rows[call.i])

\* lines 55-58: the response
analytics_respond ==
    /\ call.st = "staff"
    /\ call.i > Len(call.rows)
    /\ call' = [call EXCEPT !.st = "out"]
    /\ UNCHANGED <<users, work_events, stats, clock, changes, lastRun, sessions, wk>>

NextLegacy ==
    \/ hospital_query
    \/ hospital_row
    \/ staff_group_query
    \/ staff_group_row
    \/ analytics_respond

SpecLegacy == InitLegacy /\ [][NextLegacy]_vars

(***************************************************************************)
(* GET /stats/by-state-specialty over a table the tests fill directly      *)
(***************************************************************************)
\* a stored row as the fixtures of test_stats.py build it
StatRow(state_code, specialty, role_level, period_start, n_users, k_min) ==
    [stat_id |-> 0, country_code |-> "DEU", state_code |-> state_code,
     specialty |-> specialty, role_level |-> role_level,
     period_start |-> period_start, period_end |-> period_start + 6,
     n_users |-> n_users,
     avg_planned_hours_noised |-> 4000,
     avg_actual_hours_noised |-> 4200,
     avg_overtime_hours_noised |-> 200,
     k_min_threshold |-> k_min, noise_epsilon |-> Round2(EPSILON),
     computed_at |-> 0]

\* the rows of setup_stats_data and setup_mixed_data, and one of the week
\* before
StoredStats ==
    {StatRow("BY", "surgery", "specialist", Date(2025, 12, 1), 15, 11),
     StatRow("BE", "emergency", "resident", Date(2025, 12, 1), 12, 11),
     StatRow("HH", "pediatrics", "resident", Date(2025, 12, 1), 5, 10),
     StatRow("NW", "internal_medicine", "specialist", Date(2025, 12, 1), 18, 10),
     StatRow("BY", "surgery", "specialist", Date(2025, 11, 24), 15, 11)}

\* the query parameters of a request; None and "" both leave a filter out,
\* and so does period_start = 0, which stands for no date
StatsQueries ==
    [country_code : {None, "DEU"}, state_code : {None, "", "HH", "BY"},
     specialty : {None, "surgery"}, role_level : {None, "resident"},
     period_start : {0, Date(2025, 12, 1)}, limit : {1, 2, 100}, offset : {0, 1}]

\* lines 50-59: the filters that are given
Matches(row, q) ==
    /\ q.country_code \in {None, ""} \/ row.country_code = q.country_code
    /\ q.state_code \in {None, ""} \/ row.state_code = q.state_code
    /\ q.specialty \in {None, ""} \/ row.specialty = q.specialty
    /\ q.role_level \in {None, ""} \/ row.role_level = q.role_level
    /\ q.period_start = 0 \/ row.period_start = q.period_start

\* line 62: the orders the database may return the rows in, latest period
\* first and rows of one period in any order
Orderings(S) ==
    {s \in [1..Cardinality(S) -> S] :
        /\ \A i, j \in DOMAIN s : i < j => s[i] # s[j]
        /\ \A i, j \in DOMAIN s : i < j => s[i].period_start >= s[j].period_start}

\* line 65: LIMIT limit OFFSET offset
Page(s, limit, offset) ==
    [i \in 1..Max(0, Min(limit, Len(s) - offset)) |-> s[offset + i]]

InitStats ==
    /\ users = IdleUsers
    /\ work_events = IdleEvents
    /\ stats \in SUBSET StoredStats
    /\ clock = 0
    /\ changes = 0
    /\ lastRun = NoRun
    /\ sessions = <<>>
    /\ wk = WkIdle
    /\ call \in {[st |-> "in", q |-> q, items |-> <<>>] : q \in StatsQueries}

\* GET /stats/by-state-specialty
get_stats_by_state_specialty ==
    /\ call.st = "in"
    /\ \E s \in Orderings({r \in stats : Matches(r, call.q)}) :
         call' = [call EXCEPT !.st = "out",
                              !.items = Page(s, call.q.limit, call.q.offset)]
    /\ UNCHANGED <<users, work_events, stats, clock, changes, lastRun, sessions, wk>>

NextStats == get_stats_by_state_specialty

SpecStats == InitStats /\ [][NextStats]_vars

(***************************************************************************)
(* POST /work-events in two steps: each request is a session of its own;   *)
(* its lookup and its commit are separate steps other requests fall        *)
(* between                                                                 *)
(***************************************************************************)
\* the users and the dates of the requests: a date every user has a record
\* for and a date no one has
EventUsers == {1, 2}

RequestDates == {Date(2025, 12, 2), Date(2025, 12, 3)}

\* a request not begun; status is the HTTP status of the response
IdleRequest == [pc |-> "idle", user_id |-> 0, date |-> 0, hours |-> <<0, 0>>, status |-> 0]

InitEvents ==
    /\ users = IdleUsers
    /\ work_events = IdleEvents
    /\ stats = {}
    /\ clock = 0
    /\ changes = 0
    /\ lastRun = NoRun
    /\ sessions = [p \in Runners |-> IdleRequest]
    /\ wk = WkIdle
    /\ call = NoCall

\* lines 43-54: the lookup; 409 when it finds a record
Looked(u, d, h) ==
    IF HasEvent(u, d)
    THEN [pc |-> "done", user_id |-> u, date |-> d, hours |-> h, status |-> 409]
    ELSE [pc |-> "added", user_id |-> u, date |-> d, hours |-> h, status |-> 0]

create_lookup(p, u, d, h) ==
    /\ changes < MaxChanges
    /\ sessions[p].pc # "added"
    /\ Registered(u)
    /\ sessions' = [sessions EXCEPT ![p] = Looked(u, d, h)]
    /\ changes' = changes + 1
    /\ UNCHANGED <<users, work_events, stats, clock, lastRun, wk, call>>

\* lines 65-69: db.commit() flushes the INSERT; uq_work_event_user_date
\* rejects it with an IntegrityError no handler catches, which the
\* framework answers with 500
create_commit(p) ==
    /\ sessions[p].pc = "added"
    /\ IF HasEvent(sessions[p].user_id, sessions[p].date)
       THEN /\ sessions' = [sessions EXCEPT ![p].pc = "done", ![p].status = 500]
            /\ UNCHANGED work_events
       ELSE /\ sessions' = [sessions EXCEPT ![p].pc = "done", ![p].status = 201]
            /\ work_events' = work_events \cup
                   {EventRow(sessions[p].user_id, sessions[p].date, sessions[p].hours)}
    /\ UNCHANGED <<users, stats, clock, changes, lastRun, wk, call>>

NextEvents ==
    \/ \E p \in Runners, u \in EventUsers, d \in RequestDates, h \in HoursIn :
          create_lookup(p, u, d, h)
    \/ \E p \in Runners : create_commit(p)
    \/ \E u \in EventUsers, d \in RequestDates, h \in HoursIn : update_work_event(u, d, h)
    \/ \E u \in EventUsers, d \in RequestDates : delete_work_event(u, d)

SpecEvents == InitEvents /\ [][NextEvents]_vars

(***************************************************************************)
(* One contributor rewrites the hours of their records of a week while     *)
(* the other records of the cohort stay as they are                        *)
(***************************************************************************)
\* the days of an ISO week, all of which one contributor may have a record for
DaysPerWeek == 7

\* the ends of the range WorkEventIn allows, in hundredths
EdgeHours == {<<2400, 0>>, <<0, 2400>>}

\* contributor 1 has a record on each of the first m days of the week of
\* 2025-12-01, every other contributor one record in that week
RewriteEvents(n, m, h) ==
    {EventRow(1, Date(2025, 12, 1) + i - 1, h) : i \in 1..m}
        \cup {EventRow(id, Date(2025, 12, 2), <<800, 900>>) : id \in 2..n}

\* the row of the grouped query for the cohort and the week
WeekRow(us, evs) == ResultRow(us, evs, CohortBY, Date(2025, 12, 1), Date(2025, 12, 7))

InitRewrite ==
    /\ \E n \in {K_MIN, K_MIN + 1}, m \in {1, 5, DaysPerWeek}, h \in EdgeHours :
          /\ users = BatchUsers(<<n, 0, 0>>)
          /\ work_events = RewriteEvents(n, m, h)
          /\ call = [st |-> "rewrite",
                     before |-> WeekRow(BatchUsers(<<n, 0, 0>>), RewriteEvents(n, m, h))]
    /\ stats = {}
    /\ clock = 0
    /\ changes = 0
    /\ lastRun = NoRun
    /\ sessions = <<>>
    /\ wk = WkIdle

\* PATCH /work-events/{event_id} by contributor 1 for the record of day d
patch_work_event(d, h) ==
    /\ HasEvent(1, d)
    /\ EventRow(1, d, h) \notin work_events
    /\ work_events' = {e \in work_events : ~(e.user_id = 1 /\ e.date = d)}
                        \cup {EventRow(1, d, h)}
    /\ UNCHANGED <<users, stats, clock, changes, lastRun, sessions, wk, call>>

NextRewrite ==
    \E i \in 1..DaysPerWeek, h \in EdgeHours : patch_work_event(Date(2025, 12, 1) + i - 1, h)

SpecRewrite == InitRewrite /\ [][NextRewrite]_vars

(***************************************************************************)
(* The daily trigger: main() is run once a day with no reference date      *)
(***************************************************************************)
\* days on which the trigger fires
MaxDays == 16

\* variant: the reference date is the day of the invocation
DefaultTarget_Today(today) == today

\* lines 84-85: target_date = date.today() - timedelta(days=1)
DefaultTarget(today) == today - 1

\* wk.date is the day the trigger fires next, from wk.first to wk.last; the
\* first is a Monday or the Wednesday after it
InitDaily ==
    /\ users = IdleUsers
    /\ work_events = IdleEvents
    /\ stats = {}
    /\ clock = 0
    /\ changes = 0
    /\ lastRun = NoRun
    /\ sessions = <<>>
    /\ wk \in {[date |-> d, st |-> "daily", first |-> d, last |-> d + MaxDays - 1] :
                  d \in {Date(2025, 12, 1), Date(2025, 12, 3)}}
    /\ call = NoCall

\* main() on the day wk.date; computed_at is a time of that day
daily_main(draws) ==
    /\ wk.st = "daily"
    /\ wk.date <= wk.last
    /\ RunDone(compute_aggregates_by_state_specialty(
                   users, work_events, stats, DefaultTarget(wk.date), draws, wk.date),
               DefaultTarget(wk.date), draws)
    /\ clock' = clock + 1
    /\ wk' = [wk EXCEPT !.date = @ + 1]
    /\ UNCHANGED <<users, work_events, changes, sessions, call>>

NextDaily == \E draws \in BatchDraws : daily_main(draws)

SpecDaily == InitDaily /\ [][NextDaily]_vars

(***************************************************************************)
(* Properties                                                              *)
(***************************************************************************)
\* a step that is a whole aggregation run
RunStep == clock' = clock + 1

\* the distinct contributors of cohort c in [period_start, period_end],
\* counted from the raw tables us, evs
RawContributors(us, evs, c, period_start, period_end) ==
    Cardinality({u \in us :
        /\ CohortKey(u) = c
        /\ \E e \in evs : /\ e.user_id = u.user_id
                          /\ e.date >= period_start
                          /\ e.date <= period_end})

RowsOf(st, c, period_start) ==
    {r \in st : CohortKey(r) = c /\ r.period_start = period_start}

\* C1 (as claimed): once a run for period P has completed, the table holds no
\* row for (cohort, P) whose distinct contributor count at that run is below K.
C1_NoRowBelowK ==
    (lastRun.seq > 0 /\ lastRun.ok) =>
        \A r \in stats :
            r.period_start = lastRun.period_start
                => lastRun.counts[CohortKey(r)] >= K_MIN

\* C1 (amended): a completed run for period P writes no row for a cohort whose
\* distinct contributor count in P is below K: every row of such a cohort and
\* period that the table holds after the run was there, unchanged, before it.
C1_RunWritesNoRowBelowK ==
    [][(RunStep /\ lastRun'.ok) =>
        \A r \in stats' :
            (/\ r.period_start = lastRun'.period_start
             /\ RawContributors(users, work_events, CohortKey(r),
                                lastRun'.period_start, lastRun'.period_end) < K_MIN)
                => r \in stats]_vars

\* a completed run has left in place a row of its period whose cohort it
\* counted below the threshold
C1_Witness ==
    /\ lastRun.seq > 0
    /\ lastRun.ok
    /\ \E r \in stats : /\ r.period_start = lastRun.period_start
                        /\ lastRun.counts[CohortKey(r)] > 0
                        /\ lastRun.counts[CohortKey(r)] < K_MIN
                        /\ r.computed_at < lastRun.seq

\* C2: every row has n_users >= the k_min_threshold stored in it, and a row a
\* run writes has n_users equal to the number of distinct users with a record
\* in the window, counted from the raw tables of that run.
C2_RawCountStored ==
    /\ [](\A r \in stats : r.n_users >= r.k_min_threshold)
    /\ [][RunStep =>
            \A r \in stats' :
                r.computed_at = clock'
                    => r.n_users = RawContributors(users, work_events, CohortKey(r),
                                                   r.period_start, r.period_end)]_vars

\* a run has written a row for a cohort an acting account has joined
C2_Witness ==
    \E r \in stats : /\ r.computed_at = lastRun.seq
                     /\ r.n_users = NIdle[1] + 1
                     /\ CohortKey(r) = CohortBY

\* C3: after a completed run for P every cohort with at least K distinct
\* contributors in the window has exactly one row for P, with n_users the
\* count, period_start the Monday of the target date's week and period_end
\* six days later; the run writes the row of a cohort iff its count >= K.
C3_AcceptedIffAtLeastK ==
    [][(RunStep /\ lastRun'.ok) =>
        LET ps == lastRun'.period_start
            pe == lastRun'.period_end
        IN  /\ Weekday(ps) = 0
            /\ pe = ps + 6
            /\ ps <= lastRun'.target /\ lastRun'.target <= pe
            /\ \A c \in Cohorts :
                 LET n == RawContributors(users, work_events, c, ps, pe)
                     written == {r \in RowsOf(stats', c, ps) : r.computed_at = clock'}
                 IN  /\ (written # {}) <=> (n >= K_MIN)
                     /\ n >= K_MIN =>
                          /\ Cardinality(RowsOf(stats', c, ps)) = 1
                          /\ \A r \in RowsOf(stats', c, ps) :
                                r.n_users = n /\ r.period_end = pe]_vars

\* a run has published a cohort exactly at the threshold next to a larger one
C3_Witness ==
    /\ lastRun.seq > 0
    /\ lastRun.ok
    /\ lastRun.counts[CohortBY] = K_MIN
    /\ lastRun.counts[CohortHH] > K_MIN
    /\ \A c \in Cohorts :
         \E r \in RowsOf(stats, c, lastRun.period_start) :
             r.computed_at = lastRun.seq /\ r.n_users = lastRun.counts[c]

\* C4 (as claimed): the threshold of the run is 10: after a completed run a
\* cohort with exactly 10 distinct contributors in the window is published
\* and a cohort with 9 is not.
C4_ThresholdIsTen ==
    (lastRun.seq > 0 /\ lastRun.ok) =>
        \A c \in Cohorts :
            /\ lastRun.counts[c] = 10 =>
                 \E r \in RowsOf(stats, c, lastRun.period_start) :
                     r.computed_at = lastRun.seq
            /\ lastRun.counts[c] = 9 =>
                 \A r \in RowsOf(stats, c, lastRun.period_start) :
                     r.computed_at # lastRun.seq

\* C5: the table never holds two rows with the same (country_code, state_code,
\* specialty, role_level, period_start); a run for the period of the run
\* before it, with no raw change in between, completes and leaves exactly one
\* row per accepted cohort, with the n_users the first run stored.
C5_OneRowPerKey ==
    /\ [](\A a, b \in stats : NaturalKey(a) = NaturalKey(b) => a = b)
    /\ [][(RunStep /\ lastRun'.rerun) =>
            /\ lastRun'.ok
            /\ \A c \in Cohorts :
                 RawContributors(users, work_events, c,
                                 lastRun'.period_start, lastRun'.period_end) >= K_MIN
                    => /\ Cardinality(RowsOf(stats', c, lastRun'.period_start)) = 1
                       /\ \A r \in RowsOf(stats', c, lastRun'.period_start) :
                             \E q \in RowsOf(stats, c, lastRun'.period_start) :
                                 /\ q.n_users = r.n_users
                                 /\ q.stat_id = r.stat_id]_vars

\* a second run of the same period on unchanged raw records has rewritten a row
C5_Witness ==
    /\ lastRun.rerun
    /\ lastRun.ok
    /\ \E r \in stats : r.computed_at = lastRun.seq /\ r.period_start = lastRun.period_start

\* C6 (as claimed): when runs for the same period overlap, no run fails on
\* uq_stats_state_spec_period, and once they have all ended the table holds
\* exactly one row per accepted cohort of the period, written by one of them.
C6_OverlappingRunsConverge ==
    /\ \A p \in Runners : sessions[p].pc # "failed"
    /\ (\A p \in Runners : sessions[p].pc = "done") =>
          \A p \in Runners :
              \A k \in 1..Len(sessions[p].results) :
                  LET row == sessions[p].results[k]
                  IN  row.n_users >= K_MIN =>
                        /\ Cardinality(RowsOf(stats, row.key,
                                              sessions[p].period.period_start)) = 1
                        /\ \A r \in RowsOf(stats, row.key, sessions[p].period.period_start) :
                              \E q \in Runners : r.computed_at = sessions[q].now

\* the unique constraint keeps the table at one row per key also when runs
\* overlap
C6_TableStaysUnique ==
    \A a, b \in stats : NaturalKey(a) = NaturalKey(b) => a = b

\* C7: the value a completed run returns is the number of rows it inserted:
\* the number of cohorts with count >= K that had no row for the period
\* before the run; rows updated in place are not counted, and a second run
\* right after, on unchanged data, returns 0.
C7_ReturnsRowsCreated ==
    [][(RunStep /\ lastRun'.ok) =>
        /\ lastRun'.stats_created =
             Cardinality({c \in Cohorts :
                /\ RawContributors(users, work_events, c,
                                   lastRun'.period_start, lastRun'.period_end) >= K_MIN
                /\ RowsOf(stats, c, lastRun'.period_start) = {}})
        /\ lastRun'.stats_created = Cardinality(stats') - Cardinality(stats)
        /\ lastRun'.rerun => lastRun'.stats_created = 0]_vars

\* a run has updated a row in place and returned 0
C7_Witness ==
    /\ lastRun.seq > 1
    /\ lastRun.ok
    /\ lastRun.stats_created = 0
    /\ \E r \in stats : r.computed_at = lastRun.seq

\* C8: a run for P changes no user and no work event, leaves every row of
\* another period and every row of P whose cohort it does not accept as it
\* was, and inserts rows only for P and for cohorts with count >= K.
C8_RunFrame ==
    [][RunStep =>
        LET ps == lastRun'.period_start
            pe == lastRun'.period_end
        IN  /\ users' = users
            /\ work_events' = work_events
            /\ \A r \in stats :
                 (\/ r.period_start # ps
                  \/ RawContributors(users, work_events, CohortKey(r), ps, pe) < K_MIN)
                    => r \in stats'
            /\ \A r \in stats' \ stats :
                 /\ r.period_start = ps
                 /\ RawContributors(users, work_events, CohortKey(r), ps, pe) >= K_MIN]_vars

\* a run has written its period's rows next to the rows of another period
C8_Witness ==
    /\ lastRun.seq > 1
    /\ lastRun.ok
    /\ \E r \in stats : r.period_start # lastRun.period_start /\ r.computed_at < lastRun.seq
    /\ \E r \in stats : r.period_start = lastRun.period_start /\ r.computed_at = lastRun.seq

\* C9 (as claimed): for every calendar date d with (y, w) = d.isocalendar(),
\* get_iso_week_bounds(y, w) returns a Monday start and end = start + 6 with
\* start <= d <= end and start.isocalendar() = (y, w, 1); a date of the week
\* before or after d has the same window iff it has the same (y, w).
C9_EveryDateHasWindow ==
    wk.st \in {"out", "err"} =>
        LET iso == IsoCalendar(wk.date)
        IN  /\ wk.st = "out"
            /\ Weekday(wk.period_start) = 0
            /\ wk.period_end = wk.period_start + 6
            /\ wk.period_start <= wk.date
            /\ wk.date <= wk.period_end
            /\ IsoCalendar(wk.period_start) = <<iso[1], iso[2], 1>>
            /\ \A e \in (wk.date - 7)..(wk.date + 7) :
                 InRange(e) =>
                    LET other == ResolvePeriod(e)
                        same_week == /\ IsoCalendar(e)[1] = iso[1]
                                     /\ IsoCalendar(e)[2] = iso[2]
                    IN  same_week <=> (/\ other.ok
                                       /\ other.period_start = wk.period_start
                                       /\ other.period_end = wk.period_end)

\* the same statement for the dates whose week ends no later than date.max
C9_WindowWithinRange ==
    (wk.st \in {"out", "err"} /\ wk.date <= MaxOrdinal - 6) =>
        LET iso == IsoCalendar(wk.date)
        IN  /\ wk.st = "out"
            /\ Weekday(wk.period_start) = 0
            /\ wk.period_end = wk.period_start + 6
            /\ wk.period_start <= wk.date
            /\ wk.date <= wk.period_end
            /\ IsoCalendar(wk.period_start) = <<iso[1], iso[2], 1>>

\* largest cohort size for which the sensitivity formula is compared
MaxCohort == 40

\* C10: the sensitivity handed to the noise for an accepted cohort is 168 / n
\* with n the cohort's distinct contributor count; it does not grow with n and
\* sensitivity(2n) = sensitivity(n) / 2 <= sensitivity(n).
C10_SensitivityPerCohort ==
    /\ \A p \in lastRun.sens :
         /\ lastRun.counts[p[1]] >= K_MIN
         /\ p[2][1] * lastRun.counts[p[1]] = 168 * p[2][2]
    /\ \A c \in Cohorts :
         lastRun.counts[c] >= K_MIN => \E p \in lastRun.sens : p[1] = c
    /\ \A n \in 1..MaxCohort :
         /\ FLeq(Sensitivity(n + 1), Sensitivity(n))
         /\ FMul(Sensitivity(2 * n), <<2, 1>>) = Sensitivity(n)
         /\ FLeq(Sensitivity(2 * n), Sensitivity(n))

\* one run has handed different sensitivities to two cohorts of different size
C10_Witness ==
    /\ lastRun.ok
    /\ \E p, q \in lastRun.sens :
         /\ lastRun.counts[p[1]] < lastRun.counts[q[1]]
         /\ FLess(q[2], p[2])

RECURSIVE SumAbsNoise(_, _, _)
\* sum of |laplace_noise(epsilon, sensitivity)| over a set of draws
SumAbsNoise(epsilon, sensitivity, draws) ==
    IF draws = {} THEN <<0, 1>>
    ELSE LET u == CHOOSE x \in draws : TRUE
         IN  FAdd(FAbs(laplace_noise(epsilon, sensitivity, u)),
                  SumAbsNoise(epsilon, sensitivity, draws \ {u}))

\* C12: for a fixed sensitivity and the same draw u the magnitude of the
\* noise at a smaller epsilon is at least that at a larger one, and the sum
\* of the magnitudes over a fixed set of draws is larger for the smaller
\* epsilon.
C12_NoiseGrowsAsEpsilonShrinks ==
    call.st = "out" =>
        \A e2 \in NoiseEpsilons :
            FLess(call.epsilon, e2) =>
                /\ FLeq(FAbs(laplace_noise(e2, call.sensitivity, call.u)),
                        FAbs(call.noise))
                /\ FLess(SumAbsNoise(e2, call.sensitivity, UniformDraws),
                         SumAbsNoise(call.epsilon, call.sensitivity, UniformDraws))

\* a call at epsilon = 0.1 has returned a value ten times the size of the
\* one the same draw gives at epsilon = 1.0
C12_Witness ==
    /\ call.st = "out"
    /\ call.epsilon = <<1, 10>>
    /\ call.noise[1] # 0
    /\ FAbs(call.noise) = FMul(<<10, 1>>, FAbs(laplace_noise(<<1, 1>>, call.sensitivity, call.u)))

\* the records of cohort c in [period_start, period_end], from the raw tables
RawEvents(us, evs, c, period_start, period_end) ==
    {e \in evs : /\ e.date >= period_start
                 /\ e.date <= period_end
                 /\ \E u \in us : u.user_id = e.user_id /\ CohortKey(u) = c}

\* mean of column f over the records G, in hours
RawMean(G, f) == Frac(SumOver(G, f), 100 * Cardinality(G))

\* the noise of draw k / UDen for a cohort of n contributors
NoiseAt(n, k) == laplace_noise(EPSILON, <<168, n>>, <<k, UDen>>)

\* row r stores the means of G with the noise of draws d: the two duration
\* means floored at 0, the overtime mean as it is
MeansClamped(r, G, d) ==
    /\ r.avg_planned_hours_noised =
         (IF FLess(FAdd(RawMean(G, "planned_hours"), NoiseAt(r.n_users, d[1])), <<0, 1>>)
          THEN 0
          ELSE Round2(FAdd(RawMean(G, "planned_hours"), NoiseAt(r.n_users, d[1]))))
    /\ r.avg_actual_hours_noised =
         (IF FLess(FAdd(RawMean(G, "actual_hours"), NoiseAt(r.n_users, d[2])), <<0, 1>>)
          THEN 0
          ELSE Round2(FAdd(RawMean(G, "actual_hours"), NoiseAt(r.n_users, d[2]))))

OvertimeUnclamped(r, G, d) ==
    r.avg_overtime_hours_noised =
        Round2(FAdd(FSub(RawMean(G, "actual_hours"), RawMean(G, "planned_hours")),
                    NoiseAt(r.n_users, d[3])))

\* C13: in every row avg_planned_hours_noised >= 0 and
\* avg_actual_hours_noised >= 0, each being the noised mean floored at 0,
\* while avg_overtime_hours_noised is the noised overtime mean as it is,
\* negative or not.
C13_MeansClampedOvertimeNot ==
    /\ [](\A r \in stats : /\ r.avg_planned_hours_noised >= 0
                            /\ r.avg_actual_hours_noised >= 0)
    /\ [][RunStep =>
            \A r \in stats' :
                r.computed_at = clock' =>
                    /\ MeansClamped(r, RawEvents(users, work_events, CohortKey(r),
                                                 r.period_start, r.period_end),
                                    lastRun'.draws[CohortKey(r)])
                    /\ OvertimeUnclamped(r, RawEvents(users, work_events, CohortKey(r),
                                                      r.period_start, r.period_end),
                                         lastRun'.draws[CohortKey(r)])]_vars

\* a run has stored a planned mean floored from below 0 to 0 next to a
\* negative overtime mean
C13_Witness ==
    /\ \A e \in work_events : e.planned_hours > 0
    /\ \E r \in stats : /\ r.computed_at = lastRun.seq
                        /\ r.avg_planned_hours_noised = 0
                        /\ r.avg_overtime_hours_noised < 0

\* C14: every row a run inserts or updates has k_min_threshold = K_MIN,
\* noise_epsilon = EPSILON and the run's time as computed_at; a row the run
\* finds for an accepted cohort of its period is overwritten in place: it
\* keeps its stat_id, key and period and gets the run's count, values and time.
C14_RowRecordsParameters ==
    [][(RunStep /\ lastRun'.ok) =>
        /\ \A r \in stats' :
             (/\ r.period_start = lastRun'.period_start
              /\ RawContributors(users, work_events, CohortKey(r),
                                 r.period_start, r.period_end) >= K_MIN)
                => /\ r.k_min_threshold = K_MIN
                   /\ r.noise_epsilon * EPSILON[2] = 100 * EPSILON[1]
                   /\ r.computed_at # 0
                   /\ r.computed_at = clock'
        /\ \A q \in stats :
             (/\ q.period_start = lastRun'.period_start
              /\ RawContributors(users, work_events, CohortKey(q),
                                 q.period_start, q.period_end) >= K_MIN)
                => \E r \in stats' :
                      /\ r.stat_id = q.stat_id
                      /\ NaturalKey(r) = NaturalKey(q)
                      /\ r.period_end = q.period_end
                      /\ r.computed_at = clock'
                      /\ r.computed_at > q.computed_at
                      /\ MeansClamped(r, RawEvents(users, work_events, CohortKey(r),
                                                   r.period_start, r.period_end),
                                      lastRun'.draws[CohortKey(r)])
                      /\ \A x \in stats' : x.stat_id = q.stat_id => x = r]_vars

\* the second run has overwritten the row the first run inserted
C14_Witness ==
    /\ lastRun.seq = 2
    /\ lastRun.ok
    /\ \E r \in stats : /\ r.stat_id = 1
                        /\ r.computed_at = 2
                        /\ r.period_start = lastRun.period_start
                        /\ r.k_min_threshold = K_MIN

\* C15 (as claimed): a cohort that cannot be stored (its users have no
\* state_code) is skipped: every other cohort of the period with at least
\* K contributors is published by the same run.
C15_MalformedCohortSkipped ==
    [][RunStep =>
        \A c \in AllCohorts :
            (/\ c.state_code # None
             /\ RawContributors(users, work_events, c,
                                lastRun'.period_start, lastRun'.period_end) >= K_MIN)
                => \E r \in RowsOf(stats', c, lastRun'.period_start) :
                      r.computed_at = clock']_vars

\* C17: _bootstrap_ci returns (None, None) for an empty list and (v, v) for
\* the one-element list [v], and draws no resample in either case.
C17_DegenerateLists ==
    (call.st = "out" /\ Len(call.samples) < 2) =>
        /\ call.means = <<>>
        /\ Len(call.samples) = 0 => call.result = <<NoValue, NoValue>>
        /\ Len(call.samples) = 1 =>
              /\ call.result[1] = call.result[2]
              /\ Len(call.result[1]) = 1
              /\ call.result[1][1][1] * 100 = call.samples[1] * call.result[1][1][2]

\* a one-element list has come back as a zero-width interval
C17_Witness ==
    /\ call.st = "out"
    /\ Len(call.samples) = 1
    /\ call.result = <<Some(<<8, 1>>), Some(<<8, 1>>)>>

\* value v is the element at index i (from 0) of the list once sorted
IsSortedElement(means, i, v) ==
    /\ \E j \in 1..Len(means) : means[j] = v
    /\ Cardinality({j \in 1..Len(means) : FLess(means[j], v)}) <= i
    /\ i < Cardinality({j \in 1..Len(means) : FLeq(means[j], v)})

\* ceiling of p / q for q > 0
CeilDiv(p, q) == -((-p) \div q)

\* C18 (as claimed): for two or more samples the bounds are the sorted
\* resample means at index floor(alpha/2 * R), at least 0, and
\* ceil((1 - alpha/2) * R), at most R - 1: 5 and 195 for R = 200, alpha = 0.05.
C18_IndicesAsClaimed ==
    (call.st = "out" /\ Len(call.samples) >= 2) =>
        LET R == call.iterations
            an == call.alpha[1]
            ad == call.alpha[2]
        IN  /\ call.lower_index = Max((an * R) \div (2 * ad), 0)
            /\ call.upper_index = Min(CeilDiv((2 * ad - an) * R, 2 * ad), R - 1)
            /\ IsSortedElement(call.means, Max((an * R) \div (2 * ad), 0),
                                call.result[1][1])
            /\ IsSortedElement(call.means,
                                Min(CeilDiv((2 * ad - an) * R, 2 * ad), R - 1),
                                call.result[2][1])
            /\ (R = 200 /\ call.alpha = <<1, 20>>) =>
                  call.lower_index = 5 /\ call.upper_index = 195

\* C18 (amended): for two or more samples the bounds are the sorted resample
\* means at index floor(alpha/2 * R) - 1, at least 0, and
\* floor((1 - alpha/2) * R), at most R - 1: 4 and 195 for R = 200, alpha = 0.05.
C18_IndicesAsComputed ==
    (call.st = "out" /\ Len(call.samples) >= 2) =>
        LET R == call.iterations
            an == call.alpha[1]
            ad == call.alpha[2]
        IN  /\ Len(call.means) = R
            /\ call.lower_index = Max(((an * R) \div (2 * ad)) - 1, 0)
            /\ call.upper_index = Min(((2 * ad - an) * R) \div (2 * ad), R - 1)
            /\ IsSortedElement(call.means, Max(((an * R) \div (2 * ad)) - 1, 0),
                                call.result[1][1])
            /\ IsSortedElement(call.means,
                                Min(((2 * ad - an) * R) \div (2 * ad), R - 1),
                                call.result[2][1])
            /\ (R = 200 /\ call.alpha = <<1, 20>>) =>
                  call.lower_index = 4 /\ call.upper_index = 195

\* a call with the defaults has drawn 200 means of which exactly five are
\* the smaller one and has returned the smaller one as the lower bound
C18_Witness ==
    /\ call.st = "out"
    /\ call.iterations = BOOTSTRAP_ITERATIONS
    /\ call.alpha = <<1, 20>>
    /\ Len(call.samples) >= 2
    /\ Cardinality({j \in 1..Len(call.means) :
                        FLess(call.means[j], call.result[2][1])}) = 5
    /\ \E j \in 1..Len(call.means) : call.means[j] = call.result[1][1]
    /\ FLess(call.result[1][1], call.result[2][1])

\* the summaries the request has built so far
AllSummaries ==
    {call.hospital_monthly[j] : j \in 1..Len(call.hospital_monthly)}
        \cup {call.staff_group_monthly[j] : j \in 1..Len(call.staff_group_monthly)}

\* C19: in every summary of the legacy path, when both bounds of an interval
\* are non-null the lower one is <= the upper one, after noise and rounding.
C19_BoundsOrdered ==
    \A x \in AllSummaries :
        /\ (x.ci_actual_low # NoValue /\ x.ci_actual_high # NoValue)
              => x.ci_actual_low[1] <= x.ci_actual_high[1]
        /\ (x.ci_overtime_low # NoValue /\ x.ci_overtime_high # NoValue)
              => x.ci_overtime_low[1] <= x.ci_overtime_high[1]

\* a grouping of five equal samples has come back with an interval the
\* noise has opened on both sides
C19_Witness ==
    \E x \in AllSummaries :
        /\ x.report_count = 5
        /\ x.average_actual_hours = Some(800)
        /\ x.ci_actual_low # NoValue
        /\ x.ci_actual_low[1] < 800
        /\ x.ci_actual_high[1] > 800

\* the reports of the grouping a summary stands for
GroupingOf(x) ==
    {r \in call.reports :
        /\ call.staff_group = None \/ r.staff_group = call.staff_group
        /\ x.hospital_domain = None \/ r.hospital_domain = x.hospital_domain
        /\ r.staff_group = x.staff_group
        /\ r.month_start = x.month_start}

SummaryFields ==
    {"average_actual_hours", "average_overtime_hours", "total_actual_hours",
     "total_overtime_hours", "ci_actual_low", "ci_actual_high",
     "ci_overtime_low", "ci_overtime_high"}

\* C20: every summary has suppressed = (report_count < 5) with report_count
\* the number of reports of its grouping; a suppressed summary has all eight
\* metrics null, any other has all eight non-null.
C20_SuppressedBelowFive ==
    \A x \in AllSummaries :
        /\ x.report_count = Cardinality(GroupingOf(x))
        /\ x.suppressed <=> (x.report_count < 5)
        /\ x.suppressed => \A f \in SummaryFields : x[f] = NoValue
        /\ ~x.suppressed => \A f \in SummaryFields : x[f] # NoValue

\* a response holds a suppressed hospital summary of four reports next to
\* the staff-group summary of five
C20_Witness ==
    /\ call.st = "out"
    /\ \E x \in AllSummaries : x.report_count = 4 /\ x.suppressed
    /\ \E x \in AllSummaries : /\ x.report_count = 5
                                /\ ~x.suppressed
                                /\ x.hospital_domain = None

\* C21: no item returned by GET /stats/by-state-specialty has n_users below
\* the k-anonymity threshold, whatever the table holds and whatever the
\* filters and the page are
C21_OnlyKAnonymousReturned ==
    call.st = "out" =>
        \A i \in 1..Len(call.items) : call.items[i].n_users >= K_MIN

\* a step in which request p is answered
Answered(p) == sessions[p].pc # "done" /\ sessions'[p].pc = "done"

\* at most one work event per (user_id, date)
OnePerUserAndDate ==
    \A e, f \in work_events : (e.user_id = f.user_id /\ e.date = f.date) => e = f

\* C22: there is at most one work event per (user_id, date), and a create
\* answered while the user has a record for the date is answered with 409
\* and leaves the stored events as they were, overlapping creates included
C22_DuplicateCreateRejectedWith409 ==
    /\ []OnePerUserAndDate
    /\ [][\A p \in Runners :
            (Answered(p) /\ HasEvent(sessions'[p].user_id, sessions'[p].date))
                => (sessions'[p].status = 409 /\ work_events' = work_events)]_vars

\* the overtime mean of a row of the grouped query (line 134)
OvertimeOf(row) == FSub(row.avg_actual, row.avg_planned)

\* x and y differ by at most 168 / n
WithinSensitivity(x, y, n) == FLeq(FAbs(FSub(x, y)), Sensitivity(n))

\* the two duration means of the cohort stay within 168 / n of what they
\* were before contributor 1 rewrote their records
C23_DurationMeansWithinSensitivity ==
    call.st = "rewrite" =>
        /\ WithinSensitivity(WeekRow(users, work_events).avg_planned,
                             call.before.avg_planned, call.before.n_users)
        /\ WithinSensitivity(WeekRow(users, work_events).avg_actual,
                             call.before.avg_actual, call.before.n_users)

\* C23: whatever allowed values one contributor changes the hours of their
\* records to, the raw avg_planned, avg_actual and avg_overtime of the cohort
\* move by at most 168 / n each
C23_MeansWithinSensitivity ==
    call.st = "rewrite" =>
        /\ C23_DurationMeansWithinSensitivity
        /\ WithinSensitivity(OvertimeOf(WeekRow(users, work_events)),
                             OvertimeOf(call.before), call.before.n_users)

\* C24: for two or more samples and R >= 1 both indices lie in 0..R-1 and
\* the bounds before noise satisfy min(samples) <= lower <= upper <=
\* max(samples); for a constant list they are both that constant.
C24_BoundsWithinSamples ==
    (call.st = "out" /\ Len(call.samples) >= 2) =>
        LET value(j) == Frac(call.samples[j], 100)
            lower == call.result[1][1]
            upper == call.result[2][1]
        IN  /\ call.lower_index \in 0..(call.iterations - 1)
            /\ call.upper_index \in 0..(call.iterations - 1)
            /\ \E j \in 1..Len(call.samples) : FLeq(value(j), lower)
            /\ FLeq(lower, upper)
            /\ \E j \in 1..Len(call.samples) : FLeq(upper, value(j))
            /\ (\A j \in 1..Len(call.samples) : call.samples[j] = call.samples[1])
                  => (lower = value(1) /\ upper = value(1))

\* a call with the default R over a list of unequal samples has returned
\* two different bounds, the smallest and the largest sample
C24_Witness ==
    /\ call.st = "out"
    /\ call.iterations = BOOTSTRAP_ITERATIONS
    /\ call.samples = <<800, 1000>>
    /\ call.result = <<Some(<<8, 1>>), Some(<<10, 1>>)>>

\* a step that is a completed run for the period of the run before it, with
\* no record changed in between
RerunStep == RunStep /\ lastRun'.ok /\ lastRun'.rerun

\* the three noised averages of a row
NoisedFields(r) ==
    <<r.avg_planned_hours_noised, r.avg_actual_hours_noised, r.avg_overtime_hours_noised>>

\* C25 (as claimed): a re-run for the same cohort and period on unchanged
\* records stores noised averages that differ from those the run before
\* stored.
C25_RerunValuesDiffer ==
    [][RerunStep =>
        \A q \in stats : \A r \in stats' :
            (NaturalKey(r) = NaturalKey(q) /\ r.computed_at = clock')
                => NoisedFields(r) # NoisedFields(q)]_vars

\* C25 (amended): a re-run on unchanged records overwrites each row of its
\* period with values computed from the raw means and the run's own three
\* draws, one draw per field and nothing taken from the values stored
\* before: a field is what it was exactly as far as its own draw gives the
\* same clamped, rounded value again.
C25_RerunUsesOwnDraws ==
    [][RerunStep =>
        \A q \in stats :
            (/\ q.period_start = lastRun'.period_start
             /\ RawContributors(users, work_events, CohortKey(q),
                                q.period_start, q.period_end) >= K_MIN)
                => \E r \in stats' :
                      /\ NaturalKey(r) = NaturalKey(q)
                      /\ r.computed_at = clock'
                      /\ MeansClamped(r, RawEvents(users, work_events, CohortKey(r),
                                                   r.period_start, r.period_end),
                                      lastRun'.draws[CohortKey(r)])
                      /\ OvertimeUnclamped(r, RawEvents(users, work_events, CohortKey(r),
                                                        r.period_start, r.period_end),
                                           lastRun'.draws[CohortKey(r)])
                      /\ \A k \in 1..3 :
                            lastRun'.draws[CohortKey(r)][k] = lastRun.draws[CohortKey(r)][k]
                                => NoisedFields(r)[k] = NoisedFields(q)[k]]_vars

\* a re-run whose three draws for a cohort are all different has overwritten
\* the cohort's row with three different noised values
C25_Witness ==
    /\ lastRun.ok
    /\ lastRun.rerun
    /\ \E r \in stats :
          /\ r.computed_at = lastRun.seq
          /\ Cardinality({lastRun.draws[CohortKey(r)][k] : k \in 1..3}) = 3
          /\ Cardinality({NoisedFields(r)[k] : k \in 1..3}) = 3

\* C26: the table changes only in the step in which a run's commit
\* succeeds; a run that ends in an error, at its commit or before it,
\* leaves stats_by_state_specialty as it was, with none of the rows it
\* staged.
C26_FailedRunWritesNothing ==
    [][/\ stats' # stats =>
            \E p \in Runners : sessions[p].pc = "loop" /\ sessions'[p].pc = "done"
       /\ \A p \in Runners :
            (sessions[p].pc # "failed" /\ sessions'[p].pc = "failed")
                => stats' = stats]_vars

\* a run that had staged a new row has failed at its commit next to a run
\* that had committed, and the table holds the committed run's row alone
C26_Witness ==
    \E p, q \in Runners :
        /\ sessions[p].pc = "failed"
        /\ sessions[p].sess.new # {}
        /\ sessions[q].pc = "done"
        /\ Cardinality(stats) = 1
        /\ \A r \in stats : r.computed_at = sessions[q].now

\* C27: |laplace_noise(epsilon, sensitivity)| <= sensitivity / epsilon for
\* every draw in [-0.5, 0.5]; with the sensitivity 168 / n and EPSILON the
\* noise added to a mean of a cohort of n contributors is at most
\* 168 / (n * EPSILON) in size.
C27_NoiseBounded ==
    call.st = "out" =>
        /\ FLeq(FAbs(call.noise), FDiv(call.sensitivity, call.epsilon))
        /\ \A n \in K_MIN..(K_MIN + MaxExtra) :
              (call.sensitivity = Sensitivity(n) /\ call.epsilon = EPSILON)
                  => FLeq(FAbs(call.noise),
                          Frac(max_hours_per_week * EPSILON[2], n * EPSILON[1]))

\* a call for a cohort at the threshold has returned the largest noise there
\* is, that of the draw u = 0
C27_Witness ==
    /\ call.st = "out"
    /\ call.epsilon = EPSILON
    /\ call.sensitivity = Sensitivity(K_MIN)
    /\ call.u = <<0, 1>>
    /\ FAbs(call.noise) = Frac(max_hours_per_week * EPSILON[2], K_MIN * EPSILON[1])

\* the run before this step's was fired the day before, for the same week
SameWeekAsDayBefore == lastRun'.period_start = lastRun.period_start

\* C28: with the default reference date and one run a day, the runs fired
\* from a Tuesday to the Monday after it resolve to one ISO week, the week
\* changing with the run fired on a Tuesday; each writes the one row a
\* cohort has for that week, and once the Monday after the week has passed
\* the row is as that Monday's run left it.
C28_WeekOfDailyRuns ==
    /\ [](\A r \in stats :
            /\ r.computed_at \in (r.period_start + 1)..(r.period_end + 1)
            /\ wk.date > r.period_end + 1 => r.computed_at = r.period_end + 1
            /\ \A q \in stats : NaturalKey(q) = NaturalKey(r) => q = r)
    /\ [][(RunStep /\ lastRun.seq > 0) =>
            /\ lastRun'.ok
            /\ lastRun'.target = wk.date - 1
            /\ Weekday(lastRun'.period_start) = 0
            /\ lastRun'.period_end = lastRun'.period_start + 6
            /\ lastRun'.target \in lastRun'.period_start..lastRun'.period_end
            /\ SameWeekAsDayBefore <=> Weekday(wk.date) # 1]_vars

\* the trigger has fired on the Tuesday after the week of 2025-12-01 and the
\* week's row is the one the Monday run, 2025-12-08, wrote last
C28_Witness ==
    /\ wk.st = "daily"
    /\ wk.date = Date(2025, 12, 10)
    /\ lastRun.period_start = Date(2025, 12, 8)
    /\ \E r \in stats : /\ r.period_start = Date(2025, 12, 1)
                        /\ r.computed_at = Date(2025, 12, 8)
                        /\ r.stat_id = 1

\* the raw mean of column f over the reports G, rounded to hundredths
ExactMean(G, f) == Some(Round2(Frac(SumOver(G, f), 100 * Cardinality(G))))

\* the raw sum of column f over the reports G, rounded to hundredths
ExactSum(G, f) == Some(Round2(Frac(SumOver(G, f), 100)))

\* C29: in the legacy path every summary has the exact report_count of its
\* grouping, and a non-suppressed one has the raw mean and the raw sum of
\* its reports, rounded to 2 decimals, as its averages and totals: the noise
\* touches the interval bounds only.
C29_AveragesAndTotalsExact ==
    \A x \in AllSummaries :
        /\ x.report_count = Cardinality(GroupingOf(x))
        /\ ~x.suppressed =>
              /\ x.average_actual_hours = ExactMean(GroupingOf(x), "actual_hours_worked")
              /\ x.average_overtime_hours = ExactMean(GroupingOf(x), "overtime_hours")
              /\ x.total_actual_hours = ExactSum(GroupingOf(x), "actual_hours_worked")
              /\ x.total_overtime_hours = ExactSum(GroupingOf(x), "overtime_hours")

\* a staff-group summary of six reports has the mean 8.33 and the sum 50 of
\* five reports of 8 hours and one of 10, next to a lower overtime bound
\* that is not the overtime mean
C29_Witness ==
    \E x \in AllSummaries :
        /\ x.report_count = 6
        /\ ~x.suppressed
        /\ x.average_actual_hours = Some(833)
        /\ x.total_actual_hours = Some(5000)
        /\ x.ci_overtime_low # NoValue
        /\ x.ci_overtime_low # x.average_overtime_hours

\* C30: _laplace_noise returns a number for every value of random.random(),
\* 0.0 included, so no request of the legacy path is ended by an exception
\* of _compute_metrics.
C30_ComputeMetricsNeverRaises == call.st # "err"

====
